---- MODULE Spec2Model ----
(***************************************************************************)
(* A model of the rss-gen crate: the feed data model (data.rs), the        *)
(* generator (generator.rs), the streaming parser (parser.rs) and the      *)
(* validator (validator.rs).                                               *)
(*                                                                         *)
(* Strings are sequences of tokens.  A token is one character ("&", "<",   *)
(* "a") or an indivisible run of ordinary characters ("amp;", "http://",   *)
(* "Mon, 01 Jan 2024 00:00:00").  The five special characters and the      *)
(* control characters are always tokens of their own, so that escaping,    *)
(* unescaping and filtering act on them exactly as the code does.          *)
(***************************************************************************)
EXTENDS Integers, Sequences, FiniteSets, TLC

VARIABLES
    \* ---- the parser (parse_rss and its ParserContext) ----
    reader,       \* the XML reader: the stack of open element names
    context,      \* ParserContext
    rss_data,     \* the RssData that parse_rss is filling
    config,       \* Option<&ParserConfig>: NoConfig or the handler list
    outcome,      \* "running", "ok" (Eof reached) or "err"
    error,        \* the RssError kind when outcome = "err"
    calls,        \* the handlers invoked by the last event, in order
    root,         \* the first start event of the document
    last,         \* the last event read from the reader
    nevents,      \* number of events read
    unknown_in,   \* names of the elements an unknown element appeared directly in
    item_texts,   \* the character data read inside the innermost open <item>
    \* ---- the feed builder (RssData / RssItem API, generator, validator) ----
    feed,         \* an RssData under construction
    arg,          \* the last setter call: field, (unsanitized) value, item index or 0
    generated,    \* result of generate_rss(feed), once called
    reparsed,     \* result of parse_rss on the generated XML
    validated,    \* result of validate_rss_feed, once called
    nsets,        \* number of setter calls made
    \* ---- the item store (add_item / remove_item / clear_items) ----
    store,        \* an RssData whose item sequence is edited
    removal,      \* the last remove_item call: its argument and result, and
                  \* whether the feed held an item built with that GUID
                  \* before the call (held) and holds one after it (holds);
                  \* turn alternates between 0 and 1 from call to call
    checked,      \* result of validate_rss_feed on the store, once called
    \* ---- the sanitizers as pure functions ----
    raw,          \* an input string for sanitize_content / sanitize_input
    sanitized,    \* the sanitizer applied to raw, once and twice
    \* ---- parse_rss on whole documents ----
    document,     \* the children of the <channel> of a document, in order
    parsed        \* result of parse_rss on the document, once called

parserVars == <<reader, context, rss_data, config, outcome, error, calls,
                root, last, nevents, unknown_in, item_texts>>
feedVars   == <<feed, arg, generated, reparsed, validated, nsets>>
storeVars  == <<store, removal, checked>>
sanVars    == <<raw, sanitized>>
docVars    == <<document, parsed>>
vars       == <<reader, context, rss_data, config, outcome, error, calls,
                root, last, nevents, unknown_in, item_texts, feed, arg, generated,
                reparsed,
                validated, nsets, store, removal, checked, raw, sanitized,
                document, parsed>>

-----------------------------------------------------------------------------
(* Bounds of the model *)

MaxEvents == 5      \* events read from one document
MaxDepth  == 4      \* nesting depth of the documents read
MaxSets   == 1      \* setter calls applied to a starting feed
MaxItems  == 3      \* items held by the item store
MaxLen    == 3      \* length of the raw strings given to the sanitizers

-----------------------------------------------------------------------------
(* Strings *)

EMPTY == <<>>

AMP  == "&"
LT   == "<"
GT   == ">"
QUOT == "\""
APOS == "'"

\* Control characters (char::is_control); "\n", "\r" and "\t" are among them.
ControlChars == {"\\0", "\\b", "\n", "\r", "\t"}

\* str::replace(from, to) for a one-character pattern.
RECURSIVE replace(_, _, _)
replace(s, from, to) ==
    IF s = <<>> THEN <<>>
    ELSE (IF Head(s) = from THEN to ELSE <<Head(s)>>)
         \o replace(Tail(s), from, to)

\* The five replacements both sanitizers chain, "&" first.
escape_html(s) ==
    replace(replace(replace(replace(replace(s,
        AMP,  <<AMP, "amp;">>),
        LT,   <<AMP, "lt;">>),
        GT,   <<AMP, "gt;">>),
        QUOT, <<AMP, "quot;">>),
        APOS, <<AMP, "#x27;">>)

\* data.rs sanitize_input
sanitize_input(input) == escape_html(input)

\* The closure sanitize_content filters with.
keep_char(c) == ~(c \in ControlChars /\ c # "\n" /\ c # "\r" /\ c # "\t")

\* content.chars().filter(keep_char).collect()
RECURSIVE filter_chars(_)
filter_chars(s) ==
    IF s = <<>> THEN <<>>
    ELSE (IF keep_char(Head(s)) THEN <<Head(s)>> ELSE <<>>)
         \o filter_chars(Tail(s))

\* generator.rs sanitize_content
sanitize_content(content) == escape_html(filter_chars(content))

\* quick_xml's escaping of element text (BytesText::new), one pass over the
\* characters.
xml_escape_char(c) ==
    CASE c = LT   -> <<AMP, "lt;">>
      [] c = GT   -> <<AMP, "gt;">>
      [] c = AMP  -> <<AMP, "amp;">>
      [] c = APOS -> <<AMP, "apos;">>
      [] c = QUOT -> <<AMP, "quot;">>
      [] OTHER    -> <<c>>

RECURSIVE xml_escape(_)
xml_escape(s) ==
    IF s = <<>> THEN <<>> ELSE xml_escape_char(Head(s)) \o xml_escape(Tail(s))

\* The character an entity name stands for (quick_xml's unescape): the five
\* predefined entities and the character reference the sanitizers write.
EntityNames == {"amp;", "lt;", "gt;", "apos;", "quot;", "#x27;"}
entity_char(n) ==
    CASE n = "amp;"  -> AMP
      [] n = "lt;"   -> LT
      [] n = "gt;"   -> GT
      [] n = "apos;" -> APOS
      [] n = "quot;" -> QUOT
      [] n = "#x27;" -> APOS

\* BytesText::unescape: every "&" must start a known entity.
RECURSIVE xml_unescape(_)
xml_unescape(s) ==
    IF s = <<>> THEN [ok |-> TRUE, text |-> <<>>]
    ELSE IF Head(s) = AMP
         THEN IF Len(s) >= 2 /\ s[2] \in EntityNames
              THEN LET r == xml_unescape(Tail(Tail(s)))
                   IN  [ok |-> r.ok, text |-> <<entity_char(s[2])>> \o r.text]
              ELSE [ok |-> FALSE, text |-> <<>>]
         ELSE LET r == xml_unescape(Tail(s))
              IN  [ok |-> r.ok, text |-> <<Head(s)>> \o r.text]

Last(s) == s[Len(s)]
Front(s) == SubSeq(s, 1, Len(s) - 1)

RECURSIVE Flatten(_)
Flatten(ss) == IF ss = <<>> THEN <<>> ELSE Head(ss) \o Flatten(Tail(ss))

-----------------------------------------------------------------------------
(* URLs (the url crate, as data.rs and validator.rs use it) *)

\* Tokens that open an absolute URL, and the scheme each one names.
SchemeTokens == {"http://", "https://", "ftp://", "file://"}
scheme_of(tok) ==
    CASE tok = "http://"  -> "http"
      [] tok = "https://" -> "https"
      [] tok = "ftp://"   -> "ftp"
      [] tok = "file://"  -> "file"

\* Characters a host may not hold.
ForbiddenHostChars == {LT, GT} \cup ControlChars

\* Url::parse: a string without a scheme is a relative URL without a base; the
\* schemes http, https and ftp need a host.
Url_parse(url) ==
    IF url = <<>> \/ Head(url) \notin SchemeTokens
    THEN [ok |-> FALSE, scheme |-> ""]
    ELSE IF Head(url) # "file://"
            /\ (Tail(url) = <<>>
                \/ \E i \in 2..Len(url) : url[i] \in ForbiddenHostChars)
         THEN [ok |-> FALSE, scheme |-> ""]
         ELSE [ok |-> TRUE, scheme |-> scheme_of(Head(url))]

\* data.rs validate_url: Ok, or the RssError::InvalidUrl message.
validate_url(url) ==
    LET parsed_url == Url_parse(url) IN
    IF ~parsed_url.ok
    THEN [ok |-> FALSE, msg |-> <<"Invalid URL provided: ">> \o url]
    ELSE IF parsed_url.scheme # "http" /\ parsed_url.scheme # "https"
         THEN [ok |-> FALSE,
               msg |-> <<"Invalid URL provided: URL must use http or https protocol">>]
         ELSE [ok |-> TRUE, msg |-> <<>>]

-----------------------------------------------------------------------------
(* Dates *)

GMT_SUFFIX == " GMT"
RfcBody    == "Mon, 01 Jan 2024 00:00:00"   \* weekday, day month year h:m:s
ShortBody  == "Mon, 01 Jan 2024 12"         \* the time has no ':'
IsoDate    == "2024-03-21T12:00:00Z"
BadDate    == "Invalid Date"

\* The whitespace-separated words of a token, and whether it starts with
\* whitespace (else its first word continues the word before it).
ws_words(tok) ==
    CASE tok = RfcBody    -> <<"Mon,", "01", "Jan", "2024", "00:00:00">>
      [] tok = ShortBody  -> <<"Mon,", "01", "Jan", "2024", "12">>
      [] tok = GMT_SUFFIX -> <<"GMT">>
      [] tok = BadDate    -> <<"Invalid", "Date">>
      [] OTHER            -> <<tok>>
leading_space(tok) == tok = GMT_SUFFIX

\* str::split_whitespace: each component is the sequence of its pieces.
RECURSIVE split_ws(_, _)
split_ws(s, acc) ==
    IF s = <<>> THEN acc
    ELSE LET w == ws_words(Head(s))
             singles == [i \in 1..Len(w) |-> <<w[i]>>]
         IN  IF acc # <<>> /\ ~leading_space(Head(s))
             THEN split_ws(Tail(s),
                           Front(acc) \o <<Last(acc) \o <<w[1]>>>> \o Tail(singles))
             ELSE split_ws(Tail(s), acc \o singles)
split_whitespace(s) == split_ws(s, <<>>)

\* str::parse for the integer types: the value of a decimal piece.
IntPieces == {"00", "01", "12", "2024"}
int_value(p) ==
    CASE p = "00" -> 0 [] p = "01" -> 1 [] p = "12" -> 12 [] p = "2024" -> 2024
parses_as(c, lo, hi) ==
    Len(c) = 1 /\ c[1] \in IntPieces /\ int_value(c[1]) >= lo /\ int_value(c[1]) <= hi

MonthNames == {"Jan", "Feb", "Mar", "Apr", "May", "Jun",
               "Jul", "Aug", "Sep", "Oct", "Nov", "Dec"}
\* data.rs parse_month
parse_month(c) == Len(c) = 1 /\ c[1] \in MonthNames

\* str::split(':') of one component.
split_colon(c) ==
    IF c = <<"00:00:00">> THEN << <<"00">>, <<"00">>, <<"00">> >> ELSE <<c>>

\* time's Iso8601::DEFAULT parser accepts the string.
is_iso8601(s) == s = <<IsoDate>>

\* DateTime::new_with_custom_offset accepts the offset.
custom_offset_ok(hours, minutes) ==
    hours >= -23 /\ hours <= 23 /\ minutes >= -59 /\ minutes <= 59

\* data.rs parse_date: "ok", "err" (DateParseError) or "panic" (an index past
\* the end of time_components).
parse_date(date_str) ==
    IF is_iso8601(date_str) THEN "ok"
    ELSE LET components == split_whitespace(date_str) IN
         IF Len(components) = 6
         THEN IF ~parses_as(components[2], 0, 255) THEN "err"
              ELSE IF ~parse_month(components[3]) THEN "err"
              ELSE IF ~parses_as(components[4], -2147483647, 2147483647) THEN "err"
              ELSE LET time_components == split_colon(components[5]) IN
                   IF ~parses_as(time_components[1], -128, 127) THEN "err"
                   ELSE IF Len(time_components) < 2 THEN "panic"
                   ELSE IF ~parses_as(time_components[2], -128, 127) THEN "err"
                   ELSE IF Len(time_components) < 3 THEN "panic"
                   ELSE IF ~parses_as(time_components[3], -128, 127) THEN "err"
                   ELSE IF custom_offset_ok(int_value(time_components[1][1]),
                                            int_value(time_components[2][1]))
                        THEN "ok" ELSE "err"
         ELSE "err"

-----------------------------------------------------------------------------
(* The feed model (data.rs) *)

RssVersions == {"0.90", "0.91", "0.92", "1.0", "2.0"}

\* RssVersion::default
RssVersion_default == "2.0"

\* RssVersion::from_str
RssVersion_from_str(s) ==
    IF s \in RssVersions THEN [ok |-> TRUE, version |-> s]
    ELSE [ok |-> FALSE, version |-> ""]

\* RssDataField: each variant is named by the field that RssData::set assigns.
RssDataFields == {"atom_link", "author", "category", "copyright", "description",
                  "docs", "generator", "guid", "image_title", "image_url",
                  "image_link", "language", "last_build_date", "link",
                  "managing_editor", "pub_date", "title", "ttl", "webmaster"}

\* RssItemField, likewise.
RssItemFields == {"guid", "category", "description", "link", "pub_date",
                  "title", "author", "comments", "enclosure", "source"}
OptionalItemFields == {"category", "comments", "enclosure", "source"}

\* Option<String>
None    == <<>>
Some(v) == <<v>>

\* RssItem::new (RssItem::default)
RssItem_new ==
    [guid |-> EMPTY, category |-> None, description |-> EMPTY, link |-> EMPTY,
     pub_date |-> EMPTY, title |-> EMPTY, author |-> EMPTY, comments |-> None,
     enclosure |-> None, source |-> None]

\* RssData::new
RssData_new(version) ==
    [version |-> version, atom_link |-> EMPTY, author |-> EMPTY,
     category |-> EMPTY, copyright |-> EMPTY, description |-> EMPTY,
     docs |-> EMPTY, generator |-> EMPTY, guid |-> EMPTY,
     image_title |-> EMPTY, image_url |-> EMPTY, image_link |-> EMPTY,
     language |-> EMPTY, last_build_date |-> EMPTY, link |-> EMPTY,
     managing_editor |-> EMPTY, pub_date |-> EMPTY, title |-> EMPTY,
     ttl |-> EMPTY, webmaster |-> EMPTY, items |-> <<>>]

\* A setter that starts from a fresh feed of the same dialect.
RssData_set_afresh(self, field, value) ==
    [RssData_new(self.version) EXCEPT ![field] = sanitize_input(value)]

\* RssData::set (and the setter methods, which all go through it)
RssData_set(self, field, value) ==
    [self EXCEPT ![field] = sanitize_input(value)]

\* RssItem::set
RssItem_set(self, field, value) ==
    IF field \in OptionalItemFields
    THEN [self EXCEPT ![field] = Some(sanitize_input(value))]
    ELSE [self EXCEPT ![field] = sanitize_input(value)]

\* RssData::add_item
add_item(self, item) == [self EXCEPT !.items = Append(@, item)]

\* RssData::set_image
set_image(self, title, url, link) ==
    [self EXCEPT !.image_title = sanitize_input(title),
                 !.image_url   = sanitize_input(url),
                 !.image_link  = sanitize_input(link)]

\* A removal that stops at the first item it removes.
RECURSIVE retain_after_first(_, _)
retain_after_first(items, guid) ==
    IF items = <<>> THEN <<>>
    ELSE IF Head(items).guid = guid THEN Tail(items)
    ELSE <<Head(items)>> \o retain_after_first(Tail(items), guid)

\* Vec::retain
RECURSIVE retain_guid_ne(_, _)
retain_guid_ne(items, guid) ==
    IF items = <<>> THEN <<>>
    ELSE (IF Head(items).guid # guid THEN <<Head(items)>> ELSE <<>>)
         \o retain_guid_ne(Tail(items), guid)

\* RssData::remove_item: the feed afterwards and the value returned.
remove_item(self, guid) ==
    LET initial_len == Len(self.items)
        kept == retain_guid_ne(self.items, guid)
    IN  [data |-> [self EXCEPT !.items = kept],
         removed |-> Len(kept) < initial_len]

\* RssData::clear_items
clear_items(self) == [self EXCEPT !.items = <<>>]

\* RssData::item_count
item_count(self) == Len(self.items)

\* The result of a validation: kind "ok", "err" with the messages, or
\* "panic" when parse_date panicked.
Valid         == [kind |-> "ok", errors |-> <<>>]
Invalid(errs) == [kind |-> "err", errors |-> errs]
Panicked      == [kind |-> "panic", errors |-> <<>>]

date_errors(pub_date) ==
    IF pub_date # EMPTY /\ parse_date(pub_date) = "err"
    THEN << <<"Invalid publication date: Date parse error: ">> \o pub_date >>
    ELSE <<>>

link_errors(link) ==
    IF link = EMPTY THEN << <<"Link is missing">> >>
    ELSE IF ~validate_url(link).ok
         THEN << <<"Invalid link: ">> \o validate_url(link).msg >>
         ELSE <<>>

\* RssData::validate
RssData_validate(self) ==
    LET errors ==
            (IF self.title = EMPTY THEN << <<"Title is missing">> >> ELSE <<>>)
            \o link_errors(self.link)
            \o (IF self.description = EMPTY
                THEN << <<"Description is missing">> >> ELSE <<>>)
            \o date_errors(self.pub_date)
    IN  IF self.pub_date # EMPTY /\ parse_date(self.pub_date) = "panic"
        THEN Panicked
        ELSE IF errors # <<>> THEN Invalid(errors) ELSE Valid

\* An item validation that does not ask for a GUID.
RssItem_validate_without_guid(self) ==
    LET validation_errors ==
            (IF self.title = EMPTY THEN << <<"Title is missing">> >> ELSE <<>>)
            \o link_errors(self.link)
            \o date_errors(self.pub_date)
    IN  IF self.pub_date # EMPTY /\ parse_date(self.pub_date) = "panic"
        THEN Panicked
        ELSE IF validation_errors # <<>> THEN Invalid(validation_errors) ELSE Valid

\* RssItem::validate
RssItem_validate(self) ==
    LET validation_errors ==
            (IF self.title = EMPTY THEN << <<"Title is missing">> >> ELSE <<>>)
            \o link_errors(self.link)
            \o (IF self.guid = EMPTY THEN << <<"GUID is missing">> >> ELSE <<>>)
            \o date_errors(self.pub_date)
    IN  IF self.pub_date # EMPTY /\ parse_date(self.pub_date) = "panic"
        THEN Panicked
        ELSE IF validation_errors # <<>> THEN Invalid(validation_errors) ELSE Valid

-----------------------------------------------------------------------------
(* The validator (validator.rs) *)

MAX_URL_LENGTH == 2000

\* A run of 1992 ordinary characters: "http://" \o LongRun \o "a" has 2000.
LongRun == "aaaa...a (1992)"

\* str::len of a token and of a string.
token_len(tok) ==
    CASE tok = LongRun -> 1992
      [] tok \in {"http://", "ftp://", "file://"} -> 7
      [] tok = "https://" -> 8
      [] tok \in {"amp;", "quot;", "apos;"} -> 4
      [] tok \in {"lt;", "gt;"} -> 3
      [] tok = "#x27;" -> 5
      [] tok = RfcBody -> 25
      [] tok = ShortBody -> 19
      [] tok = GMT_SUFFIX -> 4
      [] tok = IsoDate -> 20
      [] tok = BadDate -> 12
      [] OTHER -> 1
RECURSIVE str_len(_)
str_len(s) == IF s = <<>> THEN 0 ELSE token_len(Head(s)) + str_len(Tail(s))

\* A ValidationError, and its Display form ("Validation error: {message}").
ValidationError(field, message) == [field |-> field, message |-> message]
to_string(e) == <<"Validation error: ">> \o e.message

\* A base rule group that reports nothing.
validate_rss_data_silent(data) == <<>>

\* RssFeedValidator::validate_rss_data
validate_rss_data(data) ==
    IF RssData_validate(data).kind = "err"
    THEN << ValidationError("rss_data",
               <<"Validation errors: ">> \o Flatten(RssData_validate(data).errors)) >>
    ELSE <<>>

\* A URL check that rejects a URL of the maximum length too.
validate_url_below_maximum(url, field) ==
    IF str_len(url) >= MAX_URL_LENGTH
    THEN << ValidationError(field, <<"URL exceeds maximum length of 2000 characters">>) >>
    ELSE IF Url_parse(url).ok /\ Url_parse(url).scheme \in {"http", "https"}
    THEN <<>>
    ELSE << ValidationError(field, <<"Invalid URL in ", field, ": ">> \o url) >>

\* RssFeedValidator::validate_url
validator_validate_url(url, field) ==
    IF str_len(url) > MAX_URL_LENGTH
    THEN << ValidationError(field, <<"URL exceeds maximum length of 2000 characters">>) >>
    ELSE LET parsed_url == Url_parse(url) IN
         IF parsed_url.ok
         THEN IF parsed_url.scheme # "http" /\ parsed_url.scheme # "https"
              THEN << ValidationError(field,
                        <<"Invalid URL scheme in ", field, ": ">> \o url
                        \o <<". Only HTTP and HTTPS are allowed.">>) >>
              ELSE <<>>
         ELSE << ValidationError(field, <<"Invalid URL in ", field, ": ">> \o url) >>

\* A duplicate check that remembers the GUID of the item before only.
RECURSIVE validate_guids_adjacent(_, _)
validate_guids_adjacent(items, guids) ==
    IF items = <<>> THEN <<>>
    ELSE (IF Head(items).guid \in guids
          THEN << ValidationError("guid",
                     <<"Duplicate GUID found: ">> \o Head(items).guid) >>
          ELSE <<>>)
         \o validate_guids_adjacent(Tail(items), {Head(items).guid})

\* RssFeedValidator::validate_guids: one error per item whose GUID the set
\* already holds.
RECURSIVE validate_guids_from(_, _)
validate_guids_from(items, guids) ==
    IF items = <<>> THEN <<>>
    ELSE (IF Head(items).guid \in guids
          THEN << ValidationError("guid",
                     <<"Duplicate GUID found: ">> \o Head(items).guid) >>
          ELSE <<>>)
         \o validate_guids_from(Tail(items), guids \cup {Head(items).guid})
validate_guids(data) == validate_guids_from(data.items, {})

\* A structural group that leaves the atom:link rule to the dialect group.
validate_atom_link_left_out(data) == <<>>

\* RssFeedValidator::validate_atom_link
validate_atom_link(data) ==
    IF data.version = "2.0" /\ data.atom_link = EMPTY
    THEN << ValidationError("atom_link", <<"atom:link is required for RSS 2.0 feeds">>) >>
    ELSE <<>>

\* RssFeedValidator::validate_structure
validate_structure(data) ==
    validator_validate_url(data.link, "channel link")
    \o Flatten([i \in 1..Len(data.items) |->
          validator_validate_url(data.items[i].link,
                                 "item[" \o ToString(i - 1) \o "] link")])
    \o (IF data.items = <<>>
        THEN << ValidationError("items", <<"RSS feed must contain at least one item">>) >>
        ELSE <<>>)
    \o validate_guids(data)
    \o validate_atom_link(data)

\* RssFeedValidator::validate_items
validate_items(data) ==
    Flatten([i \in 1..Len(data.items) |->
        IF RssItem_validate(data.items[i]).kind = "err"
        THEN << ValidationError("item[" \o ToString(i - 1) \o "]",
                   <<"Item validation failed: Validation errors: ">>
                   \o Flatten(RssItem_validate(data.items[i]).errors)) >>
        ELSE <<>>])

WeekdayWords == {"Mon,", "Tue,", "Wed,", "Thu,", "Fri,", "Sat,", "Sun,"}

\* DateTime::parse_custom_format with the validator's format
\* "[weekday repr:short], [day] [month repr:short] [year] [hour]:[minute]:[second]"
parse_custom_format(s) ==
    LET c == split_whitespace(s) IN
    /\ Len(c) = 5
    /\ Len(c[1]) = 1 /\ c[1][1] \in WeekdayWords
    /\ parses_as(c[2], 1, 31)
    /\ parse_month(c[3])
    /\ parses_as(c[4], 0, 9999)
    /\ Len(split_colon(c[5])) = 3
    /\ \A i \in 1..3 : parses_as(split_colon(c[5])[i], 0, 59)

\* RssError::DateParseError and its Display form ("Date parse error: {0}").
DateParseError(message) == [ok |-> FALSE, error |-> <<"Date parse error: ">> \o message]
DateParsed == [ok |-> TRUE, error |-> <<>>]

\* A date parser that takes a value without the " GMT" suffix as it is.
validator_parse_date_any_zone(date_str) ==
    IF date_str # <<>> /\ Last(date_str) = GMT_SUFFIX
          /\ ~parse_custom_format(Front(date_str))
    THEN DateParseError(<<"Failed to parse date: ">> \o date_str)
    ELSE DateParsed

\* RssFeedValidator::parse_date
validator_parse_date(date_str) ==
    IF date_str = <<>> \/ Last(date_str) # GMT_SUFFIX
    THEN DateParseError(<<"Invalid date format (missing GMT): ">> \o date_str)
    ELSE IF ~parse_custom_format(Front(date_str))
    THEN DateParseError(<<"Failed to parse date: ">> \o date_str)
    ELSE DateParsed

\* RssFeedValidator::validate_date
validate_date(date_str, field) ==
    IF date_str # EMPTY /\ ~validator_parse_date(date_str).ok
    THEN << ValidationError(field, <<"Invalid date format: ">>
                                   \o validator_parse_date(date_str).error) >>
    ELSE <<>>

\* RssFeedValidator::validate_dates
validate_dates(data) ==
    validate_date(data.pub_date, "pubDate")
    \o validate_date(data.last_build_date, "lastBuildDate")
    \o Flatten([i \in 1..Len(data.items) |->
          validate_date(data.items[i].pub_date,
                        "item[" \o ToString(i - 1) \o "].pubDate")])

\* Dialect rules that ask every dialect for a GUID in every item.
validate_version_specific_guids(data) ==
    IF \E i \in 1..Len(data.items) : data.items[i].guid = EMPTY
    THEN << ValidationError("guid", <<"All items must have a guid in RSS 1.0">>) >>
    ELSE <<>>

\* RssFeedValidator::validate_version_specific
validate_version_specific(data) ==
    CASE data.version = "2.0" ->
            (IF data.generator = EMPTY
             THEN << ValidationError("generator",
                       <<"generator is recommended for RSS 2.0 feeds">>) >>
             ELSE <<>>)
            \o (IF data.atom_link = EMPTY
                THEN << ValidationError("atom_link",
                          <<"atom:link is required for RSS 2.0 feeds">>) >>
                ELSE <<>>)
      [] data.version = "1.0" ->
            IF \E i \in 1..Len(data.items) : data.items[i].guid = EMPTY
            THEN << ValidationError("guid", <<"All items must have a guid in RSS 1.0">>) >>
            ELSE <<>>
      [] OTHER -> <<>>

\* Whether a call of RssData::validate or RssItem::validate inside the
\* validator panics.
validator_panics(data) ==
    \/ RssData_validate(data).kind = "panic"
    \/ \E i \in 1..Len(data.items) : RssItem_validate(data.items[i]).kind = "panic"

\* A validation that stops at the first rule group that reports an error.
collect_errors_first(data) ==
    IF validate_rss_data(data) # <<>> THEN validate_rss_data(data)
    ELSE IF validate_structure(data) # <<>> THEN validate_structure(data)
    ELSE IF validate_items(data) # <<>> THEN validate_items(data)
    ELSE IF validate_dates(data) # <<>> THEN validate_dates(data)
    ELSE validate_version_specific(data)

\* The error list RssFeedValidator::validate collects, group by group.
collect_errors(data) ==
    validate_rss_data(data)
    \o validate_structure(data)
    \o validate_items(data)
    \o validate_dates(data)
    \o validate_version_specific(data)

\* RssFeedValidator::validate
RssFeedValidator_validate(data) ==
    IF validator_panics(data) THEN Panicked
    ELSE LET errors == collect_errors(data) IN
         IF errors = <<>> THEN Valid
         ELSE Invalid([i \in 1..Len(errors) |-> to_string(errors[i])])

\* validate_rss_feed
validate_rss_feed(data) == RssFeedValidator_validate(data)

-----------------------------------------------------------------------------
(* XML events: what quick_xml's Writer is given and its Reader returns *)

Start(name, attrs) == [kind |-> "Start", name |-> name, attrs |-> attrs, text |-> <<>>]
End(name)          == [kind |-> "End",   name |-> name, attrs |-> <<>>,  text |-> <<>>]
Empty(name, attrs) == [kind |-> "Empty", name |-> name, attrs |-> attrs, text |-> <<>>]
Text(text)         == [kind |-> "Text",  name |-> "",   attrs |-> <<>>,  text |-> text]
CData(text)        == [kind |-> "CData", name |-> "",   attrs |-> <<>>,  text |-> text]
Decl               == [kind |-> "Decl",  name |-> "",   attrs |-> <<>>,  text |-> <<>>]
NoEvent            == [kind |-> "",      name |-> "",   attrs |-> <<>>,  text |-> <<>>]

-----------------------------------------------------------------------------
(* The generator (generator.rs) *)

\* write_element: BytesText::new escapes the content it is given.
write_element(name, content) ==
    << Start(name, <<>>), Text(xml_escape(content)), End(name) >>

\* An entry written whether or not its content is empty.
write_always(name, content) == write_element(name, content)

\* One entry of the (name, content) tables: written only when not empty.
write_if_present(name, content) ==
    IF content # EMPTY THEN write_element(name, content) ELSE <<>>

\* write_xml_declaration
write_xml_declaration == << Decl >>

\* write_channel_elements
write_channel_elements(options) ==
    write_if_present("title", options.title)
    \o write_if_present("link", options.link)
    \o write_if_present("description", options.description)
    \o write_if_present("language", options.language)
    \o write_if_present("pubDate", options.pub_date)
    \o write_if_present("lastBuildDate", options.last_build_date)
    \o write_if_present("docs", options.docs)
    \o write_if_present("generator", options.generator)
    \o write_if_present("managingEditor", options.managing_editor)
    \o write_if_present("webMaster", options.webmaster)
    \o write_if_present("category", options.category)
    \o write_if_present("ttl", options.ttl)

\* An image block written from the image's own title and link.
write_image_element_own_fields(options) ==
    IF options.image_url # EMPTY
    THEN << Start("image", <<>>) >>
         \o write_element("url", options.image_url)
         \o write_element("title", options.image_title)
         \o write_element("link", options.image_link)
         \o << End("image") >>
    ELSE <<>>

\* write_image_element
write_image_element(options) ==
    IF options.image_url # EMPTY
    THEN << Start("image", <<>>) >>
         \o write_element("url", options.image_url)
         \o write_element("title", options.title)
         \o write_element("link", options.link)
         \o << End("image") >>
    ELSE <<>>

\* write_atom_link_element: push_attribute escapes the value.
write_atom_link_element(options) ==
    IF options.atom_link # EMPTY
    THEN << Empty("atom:link",
              << <<"href", xml_escape(options.atom_link)>>,
                 <<"rel", <<"self">> >>,
                 <<"type", <<"application/rss+xml">> >> >>) >>
    ELSE <<>>

\* write_item
write_item(item) ==
    << Start("item", <<>>) >>
    \o write_if_present("title", item.title)
    \o write_if_present("link", item.link)
    \o write_if_present("description", item.description)
    \o write_if_present("guid", item.guid)
    \o write_if_present("pubDate", item.pub_date)
    \o write_if_present("author", item.author)
    \o << End("item") >>

\* write_items
write_items(options) ==
    Flatten([i \in 1..Len(options.items) |-> write_item(options.items[i])])

\* write_rss_channel_0_90, _0_91 and _0_92, which differ in the version only
write_rss_channel_0_9x(options, version) ==
    << Start("rss", << <<"version", <<version>> >> >>), Start("channel", <<>>) >>
    \o write_channel_elements(options)
    \o write_items(options)
    \o << End("channel"), End("rss") >>

\* write_rss_channel_1_0
write_rss_channel_1_0(options) ==
    << Start("rdf:RDF",
          << <<"xmlns:rdf", <<"http://www.w3.org/1999/02/22-rdf-syntax-ns#">> >>,
             <<"xmlns", <<"http://purl.org/rss/1.0/">> >> >>),
       Start("channel", <<>>) >>
    \o write_channel_elements(options)
    \o write_items(options)
    \o << End("channel"), End("rdf:RDF") >>

\* write_rss_channel_2_0
write_rss_channel_2_0(options) ==
    << Start("rss", << <<"version", <<"2.0">> >>,
                       <<"xmlns:atom", <<"http://www.w3.org/2005/Atom">> >> >>),
       Start("channel", <<>>) >>
    \o write_channel_elements(options)
    \o write_image_element(options)
    \o write_atom_link_element(options)
    \o write_items(options)
    \o << End("channel"), End("rss") >>

\* A dispatch that takes the 2.0 writer whatever the version.
write_rss_channel_latest(options) == write_rss_channel_2_0(options)

\* The dispatch of generate_rss on options.version.
write_rss_channel(options) ==
    CASE options.version = "0.90" -> write_rss_channel_0_9x(options, "0.90")
      [] options.version = "0.91" -> write_rss_channel_0_9x(options, "0.91")
      [] options.version = "0.92" -> write_rss_channel_0_9x(options, "0.92")
      [] options.version = "1.0"  -> write_rss_channel_1_0(options)
      [] options.version = "2.0"  -> write_rss_channel_2_0(options)

\* generate_rss: kind "ok" with the XML written, "err" with the validation
\* errors, or "panic".
generate_rss(options) ==
    LET v == RssData_validate(options) IN
    IF v.kind # "ok"
    THEN [kind |-> v.kind, errors |-> v.errors, xml |-> <<>>]
    ELSE [kind |-> "ok", errors |-> <<>>,
          xml |-> write_xml_declaration \o write_rss_channel(options)]

-----------------------------------------------------------------------------
(* The parser (parser.rs) *)

\* Option<&ParserConfig>: NoConfig is None, otherwise the custom_handlers
\* list.  A handler is known by its id and the element names for which its
\* handle_element returns an error.
NoConfig == "None"
Handler(id, rejects) == [id |-> id, rejects |-> rejects]

\* ParserContext::new
ParserContext_new ==
    [rss_version |-> "Other", parsing_state |-> "None", current_element |-> "",
     current_attributes |-> <<>>, current_item |-> RssItem_new,
     image_title |-> EMPTY, image_url |-> EMPTY, image_link |-> EMPTY]

\* The channel elements parse_channel_element stores, and the field of each.
ChannelElements == {"title", "link", "description", "language", "copyright",
                    "managingEditor", "webMaster", "pubDate", "lastBuildDate",
                    "category", "generator", "docs", "ttl"}
channel_field(element) ==
    CASE element = "managingEditor" -> "managing_editor"
      [] element = "webMaster"      -> "webmaster"
      [] element = "pubDate"        -> "pub_date"
      [] element = "lastBuildDate"  -> "last_build_date"
      [] OTHER                      -> element
RdfElements == {"items", "rdf:Seq", "rdf:li"}

\* A dispatcher that passes over the names it does not know, as the item
\* dispatcher does.
parse_channel_element_lenient(data, element, text, is_rss_1_0) ==
    IF element \in ChannelElements
    THEN [ok |-> TRUE, data |-> [data EXCEPT ![channel_field(element)] = text]]
    ELSE [ok |-> TRUE, data |-> data]

\* parse_channel_element
parse_channel_element(data, element, text, is_rss_1_0) ==
    IF element \in ChannelElements
    THEN [ok |-> TRUE, data |-> [data EXCEPT ![channel_field(element)] = text]]
    ELSE IF element \in RdfElements
         THEN [ok |-> is_rss_1_0, data |-> data]
         ELSE [ok |-> FALSE, data |-> data]

\* attributes.iter().map(|(k, v)| format!("{}=\"{}\"", k, v)).join(" ")
RECURSIVE join_attributes(_)
join_attributes(attributes) ==
    IF attributes = <<>> THEN <<>>
    ELSE <<Head(attributes)[1], "=", QUOT>> \o Head(attributes)[2] \o <<QUOT>>
         \o (IF Tail(attributes) = <<>> THEN <<>>
             ELSE <<" ">> \o join_attributes(Tail(attributes)))

\* parse_item_element
parse_item_element(item, element, text, attributes) ==
    CASE element \in {"title", "link", "description", "author", "guid"} ->
            [item EXCEPT ![element] = text]
      [] element = "pubDate" -> [item EXCEPT !.pub_date = text]
      [] element \in {"category", "comments", "source"} ->
            [item EXCEPT ![element] = Some(text)]
      [] element = "enclosure" ->
            IF attributes = <<>> THEN [item EXCEPT !.enclosure = None]
            ELSE [item EXCEPT !.enclosure = Some(join_attributes(attributes))]
      [] OTHER -> item

\* ImageData
ImageData(title, url, link) == [title |-> title, url |-> url, link |-> link]

\* A text handler that stores the text of a channel element in the feed in
\* whatever scope it is read.
handle_text_event_any_scope(data, ctx, text, current_item, image_data) ==
    [ok |-> TRUE,
     data |-> IF ctx.current_element \in ChannelElements
              THEN [data EXCEPT ![channel_field(ctx.current_element)] = text]
              ELSE data,
     current_item |-> current_item, image_data |-> image_data]

\* handle_text_event, given the ParsingContext built from the ParserContext.
handle_text_event(data, ctx, text, current_item, image_data) ==
    LET unchanged == [ok |-> TRUE, data |-> data, current_item |-> current_item,
                      image_data |-> image_data]
        in_channel == ctx.state = "Channel"
        in_item    == ctx.state = "Item"
        in_image   == ctx.state = "Image"
    IN
    IF in_channel /\ ~in_item /\ ~in_image
    THEN IF ctx.current_element # ""
         THEN LET r == parse_channel_element(data, ctx.current_element, text,
                                             ctx.is_rss_1_0)
              IN  [unchanged EXCEPT !.ok = r.ok, !.data = r.data]
         ELSE unchanged
    ELSE IF in_item /\ ctx.current_element # ""
    THEN [unchanged EXCEPT !.current_item =
             parse_item_element(current_item, ctx.current_element, text,
                                ctx.current_attributes)]
    ELSE IF in_image /\ ctx.current_element # ""
    THEN CASE ctx.current_element = "title" ->
                 [unchanged EXCEPT !.image_data.title = text]
           [] ctx.current_element = "url" ->
                 [unchanged EXCEPT !.image_data.url = text]
           [] ctx.current_element = "link" ->
                 [unchanged EXCEPT !.image_data.link = text]
           [] OTHER -> unchanged
    ELSE unchanged

\* apply_custom_handlers: the handlers called, in order, and whether all of
\* them returned Ok.
RECURSIVE call_handlers(_, _)
call_handlers(handlers, element) ==
    IF handlers = <<>> THEN [ok |-> TRUE, calls |-> <<>>]
    ELSE IF element \in Head(handlers).rejects
         THEN [ok |-> FALSE, calls |-> <<Head(handlers).id>>]
         ELSE LET r == call_handlers(Tail(handlers), element)
              IN  [ok |-> r.ok, calls |-> <<Head(handlers).id>> \o r.calls]
\* Handlers whose results are dropped.
apply_custom_handlers_unchecked(element, text, attributes, cfg) ==
    [ok |-> TRUE,
     calls |-> IF cfg = NoConfig THEN <<>> ELSE [i \in 1..Len(cfg) |-> cfg[i].id]]

apply_custom_handlers(element, text, attributes, cfg) ==
    IF cfg # NoConfig THEN call_handlers(cfg, element)
    ELSE [ok |-> TRUE, calls |-> <<>>]

\* The state parse_rss carries from event to event.
ParseState(ctx, data, outcome_, error_, calls_) ==
    [context |-> ctx, rss_data |-> data, outcome |-> outcome_, error |-> error_,
     calls |-> calls_]
\* A failure that is noted while the loop goes on with the next event.
Failed_and_resumed(st, kind, calls_) == [st EXCEPT !.error = kind, !.calls = calls_]

\* An event handler returned Err: `?` makes parse_rss return it.
Failed(st, kind, calls_) ==
    [st EXCEPT !.outcome = "err", !.error = kind, !.calls = calls_]

\* A start handler that enters item scope without a fresh current_item.
process_start_event_keeps_item(st, name_str, attributes) ==
    LET ctx == st.context
        stored(c) == [c EXCEPT !.current_element = name_str,
                               !.current_attributes = attributes]
    IN
    IF name_str \in {"", "rss", "rdf:RDF"} THEN st
    ELSE IF name_str = "channel" THEN [st EXCEPT !.context.parsing_state = "Channel"]
    ELSE IF name_str \in {"item", "image"}
    THEN [st EXCEPT !.context =
             stored([ctx EXCEPT !.parsing_state =
                                   IF name_str = "item" THEN "Item" ELSE "Image"])]
    ELSE IF ctx.parsing_state = "None" THEN Failed(st, "UnknownElement", <<>>)
    ELSE [st EXCEPT !.context = stored(ctx)]

\* process_start_event
process_start_event(st, name_str, attributes) ==
    LET ctx == st.context
        stored(c) == [c EXCEPT !.current_element = name_str,
                               !.current_attributes = attributes]
    IN
    IF name_str = "" THEN st
    ELSE CASE name_str \in {"rss", "rdf:RDF"} -> st
           [] name_str = "channel" ->
                 [st EXCEPT !.context.parsing_state = "Channel"]
           [] name_str = "item" ->
                 [st EXCEPT !.context =
                     stored([ctx EXCEPT !.parsing_state = "Item",
                                        !.current_item = RssItem_new])]
           [] name_str = "image" ->
                 [st EXCEPT !.context = stored([ctx EXCEPT !.parsing_state = "Image"])]
           [] OTHER ->
                 IF ctx.parsing_state \notin {"Item", "Channel", "Image"}
                 THEN Failed(st, "UnknownElement", <<>>)
                 ELSE [st EXCEPT !.context = stored(ctx)]

\* process_end_event, had </item> and </image> returned the scope to Channel
process_end_event_to_channel(st, name) ==
    LET ctx == st.context
        closed ==
            IF name = "channel"
            THEN IF ctx.parsing_state = "Channel"
                 THEN [st EXCEPT !.context.parsing_state = "None"]
                 ELSE st
            ELSE IF name = "item"
            THEN IF ctx.parsing_state = "Item"
                 THEN [st EXCEPT !.context.parsing_state = "Channel",
                                 !.rss_data = add_item(@, ctx.current_item)]
                 ELSE st
            ELSE IF name = "image" /\ ctx.parsing_state = "Image"
            THEN [st EXCEPT !.context.parsing_state = "Channel",
                            !.rss_data = set_image(@, ctx.image_title,
                                                   ctx.image_url, ctx.image_link)]
            ELSE st
    IN  [closed EXCEPT !.context.current_element = "",
                       !.context.current_attributes = <<>>]

\* process_end_event
process_end_event(st, name) ==
    LET ctx == st.context
        closed ==
            IF name = "channel"
            THEN IF ctx.parsing_state = "Channel"
                 THEN [st EXCEPT !.context.parsing_state = "None"]
                 ELSE st
            ELSE IF name = "item"
            THEN IF ctx.parsing_state = "Item"
                 THEN [st EXCEPT !.context.parsing_state = "None",
                                 !.rss_data = add_item(@, ctx.current_item)]
                 ELSE st
            ELSE IF name = "image" /\ ctx.parsing_state = "Image"
            THEN [st EXCEPT !.context.parsing_state = "None",
                            !.rss_data = set_image(@, ctx.image_title,
                                                   ctx.image_url, ctx.image_link)]
            ELSE st
    IN  [closed EXCEPT !.context.current_element = "",
                       !.context.current_attributes = <<>>]

\* Character data handed to the custom handlers before the built-in dispatch.
dispatch_text_handlers_first(st, text, cfg) ==
    LET ctx == st.context
        parse_context == [is_rss_1_0 |-> ctx.rss_version = "Rss1_0",
                          state |-> ctx.parsing_state,
                          current_element |-> ctx.current_element,
                          current_attributes |-> ctx.current_attributes]
        h == handle_text_event(st.rss_data, parse_context, text, ctx.current_item,
                 ImageData(ctx.image_title, ctx.image_url, ctx.image_link))
        written == [st EXCEPT !.rss_data = h.data,
                              !.context.current_item = h.current_item,
                              !.context.image_title = h.image_data.title,
                              !.context.image_url = h.image_data.url,
                              !.context.image_link = h.image_data.link]
        c == apply_custom_handlers(ctx.current_element, text,
                                   ctx.current_attributes, cfg)
    IN  IF ~c.ok THEN Failed(st, "HandlerError", c.calls)
        ELSE IF ~h.ok THEN Failed(st, "UnknownElement", c.calls)
        ELSE [written EXCEPT !.calls = c.calls]

\* The part process_text_event and process_cdata_event share: the built-in
\* dispatch, the image fields written back, then the custom handlers.
dispatch_text(st, text, cfg) ==
    LET ctx == st.context
        parse_context == [is_rss_1_0 |-> ctx.rss_version = "Rss1_0",
                          state |-> ctx.parsing_state,
                          current_element |-> ctx.current_element,
                          current_attributes |-> ctx.current_attributes]
        h == handle_text_event(st.rss_data, parse_context, text, ctx.current_item,
                 ImageData(ctx.image_title, ctx.image_url, ctx.image_link))
        written == [st EXCEPT !.rss_data = h.data,
                              !.context.current_item = h.current_item,
                              !.context.image_title = h.image_data.title,
                              !.context.image_url = h.image_data.url,
                              !.context.image_link = h.image_data.link]
        c == apply_custom_handlers(ctx.current_element, text,
                                   ctx.current_attributes, cfg)
    IN  IF ~h.ok THEN Failed(st, "UnknownElement", <<>>)
        ELSE IF ~c.ok THEN Failed(written, "HandlerError", c.calls)
        ELSE [written EXCEPT !.calls = c.calls]

\* process_text_event: the text is unescaped first.
process_text_event(st, raw_text, cfg) ==
    LET text == xml_unescape(raw_text) IN
    IF ~text.ok THEN Failed(st, "XmlWriteError", <<>>)
    ELSE dispatch_text(st, text.text, cfg)

\* process_cdata_event: the bytes are taken as they are.
process_cdata_event(st, raw_text, cfg) == dispatch_text(st, raw_text, cfg)

\* One turn of the loop of parse_rss on the event the reader returned.
parse_event(st, ev, cfg) ==
    LET s0 == [st EXCEPT !.calls = <<>>] IN
    CASE ev.kind = "Start" -> process_start_event(s0, ev.name, ev.attrs)
      [] ev.kind = "End"   -> process_end_event(s0, ev.name)
      [] ev.kind = "Text"  -> process_text_event(s0, ev.text, cfg)
      [] ev.kind = "CData" -> process_cdata_event(s0, ev.text, cfg)
      [] ev.kind = "Eof"   -> [s0 EXCEPT !.outcome = "ok"]
      [] ev.kind = "Error" -> Failed(s0, "XmlParseError", <<>>)
      [] OTHER             -> s0

\* The state parse_rss starts from.
parse_start ==
    ParseState(ParserContext_new, RssData_new(RssVersion_default), "running", "", <<>>)

\* The events the reader returns for a document: text of length 0 is no event.
RECURSIVE read_events(_)
read_events(xml) ==
    IF xml = <<>> THEN <<>>
    ELSE (IF Head(xml).kind \in {"Text", "CData"} /\ Head(xml).text = <<>>
          THEN <<>> ELSE <<Head(xml)>>)
         \o read_events(Tail(xml))

RECURSIVE parse_loop(_, _, _)
parse_loop(st, events, cfg) ==
    IF st.outcome # "running" THEN st
    ELSE IF events = <<>> THEN [st EXCEPT !.outcome = "ok"]
    ELSE parse_loop(parse_event(st, Head(events), cfg), Tail(events), cfg)

\* The Result<RssData> parse_rss hands to its caller: Ok(rss_data) at Eof,
\* Err(e) from the event that failed.
parse_result(outcome_, data, error_) ==
    IF outcome_ = "ok" THEN [ok |-> TRUE, feed |-> <<data>>, error |-> ""]
    ELSE [ok |-> FALSE, feed |-> <<>>, error |-> error_]

\* parse_rss on a whole document
parse_rss(xml, cfg) == parse_loop(parse_start, read_events(xml), cfg)

-----------------------------------------------------------------------------
(* Specification Spec: parse_rss reading a document event by event *)

\* The element names, attribute lists and texts of the documents read.
RootNames == {"rss", "rdf:RDF", "bogus"}
ElementNames == {"channel", "item", "image", "title", "items", "enclosure", "bogus"}
EnclosureAttrs == << <<"url", <<"u">> >>, <<"length", <<"1">> >> >>
ElementAttrs(name) ==
    IF name = "enclosure" THEN {<<>>, EnclosureAttrs} ELSE {<<>>}
RootVersions == {"0.91", "2.0", "3.5"}
RootAttrs(name) ==
    IF name = "rss" THEN {<< <<"version", <<v>> >> >> : v \in RootVersions}
    ELSE {<<>>}
Texts == {<<"x">>, <<AMP, "amp;">>, <<AMP, "bogus;">>}   \* the last names no entity
CDataTexts == {<<AMP, "amp;">>}
Configs == {NoConfig, <<>>,
            <<Handler(1, {}), Handler(2, {"title"}), Handler(3, {})>>}

\* Element names the parser gives no meaning to.
UnknownNames == {"bogus"}

\* The version attribute of a start event, or "" when it has none.
version_attr(ev) ==
    IF \E i \in 1..Len(ev.attrs) : ev.attrs[i][1] = "version"
    THEN LET i == CHOOSE i \in 1..Len(ev.attrs) : ev.attrs[i][1] = "version"
         IN  ev.attrs[i][2][1]
    ELSE ""

\* The values the variables of the other specifications rest at.
NotRun == [kind |-> "none", errors |-> <<>>]
NotGenerated == [kind |-> "none", errors |-> <<>>, xml |-> <<>>]
NoRemoval == [called |-> FALSE, guid |-> EMPTY, removed |-> FALSE,
              held |-> FALSE, holds |-> FALSE, turn |-> 0]
NotSanitized == [fn |-> "", once |-> EMPTY, twice |-> EMPTY]
FeedIdle ==
    /\ feed = RssData_new(RssVersion_default)
    /\ arg = [field |-> "", value |-> EMPTY, item |-> 0]
    /\ generated = NotGenerated
    /\ reparsed = parse_start
    /\ validated = NotRun
    /\ nsets = 0
StoreIdle ==
    /\ store = RssData_new(RssVersion_default)
    /\ removal = NoRemoval
    /\ checked = NotRun
ParserIdle ==
    /\ reader = <<>>
    /\ context = ParserContext_new
    /\ rss_data = RssData_new(RssVersion_default)
    /\ config = NoConfig
    /\ outcome = "running"
    /\ error = ""
    /\ calls = <<>>
    /\ root = NoEvent
    /\ last = NoEvent
    /\ nevents = 0
    /\ unknown_in = {}
    /\ item_texts = {}
SanIdle == raw = EMPTY /\ sanitized = NotSanitized

\* parse_rss has not been called on the document yet.
NotParsed == [ok |-> FALSE, feed |-> <<>>, error |-> "not called"]
DocIdle == document = <<>> /\ parsed = NotParsed

Init ==
    /\ reader = <<>>
    /\ context = ParserContext_new
    /\ rss_data = RssData_new(RssVersion_default)
    /\ config \in Configs
    /\ outcome = "running"
    /\ error = ""
    /\ calls = <<>>
    /\ root = NoEvent
    /\ last = NoEvent
    /\ nevents = 0
    /\ unknown_in = {}
    /\ item_texts = {}
    /\ FeedIdle /\ StoreIdle /\ SanIdle /\ DocIdle

\* The string a text or CDATA event hands to the dispatch.
text_of(ev) ==
    IF ev.kind = "Text" /\ xml_unescape(ev.text).ok THEN xml_unescape(ev.text).text
    ELSE ev.text

\* parse_rss handles the event the reader returned.
Deliver(ev) ==
    LET st == parse_event(ParseState(context, rss_data, outcome, error, calls),
                          ev, config)
    IN  /\ outcome = "running"
        /\ context' = st.context
        /\ rss_data' = st.rss_data
        /\ outcome' = st.outcome
        /\ error' = st.error
        /\ calls' = st.calls
        /\ last' = ev
        /\ nevents' = nevents + 1
        /\ unknown_in' =
              IF ev.kind \in {"Start", "Empty"} /\ ev.name \in UnknownNames
                 /\ reader # <<>>
              THEN unknown_in \cup {Last(reader)}
              ELSE unknown_in
        /\ item_texts' =
              IF ev.kind \in {"Start", "End"} /\ ev.name = "item" THEN {}
              ELSE IF ev.kind \in {"Text", "CData"}
                      /\ \E i \in 1..Len(reader) : reader[i] = "item"
              THEN item_texts \cup {text_of(ev)}
              ELSE item_texts
        /\ UNCHANGED <<config, feedVars, storeVars, sanVars, docVars>>

\* Event::Start: a document has one root element.
StartEvent ==
    /\ nevents < MaxEvents
    /\ Len(reader) < MaxDepth
    /\ reader = <<>> => root = NoEvent
    /\ \E name \in (IF reader = <<>> THEN RootNames ELSE ElementNames) :
       \E attrs \in (IF reader = <<>> THEN RootAttrs(name) ELSE ElementAttrs(name)) :
          /\ Deliver(Start(name, attrs))
          /\ reader' = Append(reader, name)
          /\ root' = IF root = NoEvent THEN Start(name, attrs) ELSE root

\* Event::End: the reader returns only the end tag that matches.
EndEvent ==
    /\ reader # <<>>
    /\ Deliver(End(Last(reader)))
    /\ reader' = Front(reader)
    /\ UNCHANGED root

\* Event::Text: character data inside the root element.
TextEvent ==
    /\ nevents < MaxEvents
    /\ reader # <<>>
    /\ \E text \in Texts : Deliver(Text(text))
    /\ UNCHANGED <<reader, root>>

\* Event::CData
CDataEvent ==
    /\ nevents < MaxEvents
    /\ reader # <<>>
    /\ \E text \in CDataTexts : Deliver(CData(text))
    /\ UNCHANGED <<reader, root>>

\* Event::Empty, which parse_rss passes over like every other kind of event.
EmptyEvent ==
    /\ nevents < MaxEvents
    /\ reader # <<>>
    /\ \E ev \in {Empty(name, <<>>) : name \in UnknownNames}
                \cup {Empty("enclosure", EnclosureAttrs)} : Deliver(ev)
    /\ UNCHANGED <<reader, root>>

\* Event::Eof, at the end of a document whose elements are all closed.
EofEvent ==
    /\ reader = <<>>
    /\ root # NoEvent
    /\ Deliver([NoEvent EXCEPT !.kind = "Eof"])
    /\ UNCHANGED <<reader, root>>

\* The reader returns an error (the XML is malformed here).
ReaderError ==
    /\ nevents < MaxEvents
    /\ Deliver([NoEvent EXCEPT !.kind = "Error"])
    /\ UNCHANGED <<reader, root>>

Next ==
    \/ StartEvent
    \/ EndEvent
    \/ TextEvent
    \/ CDataEvent
    \/ EmptyEvent
    \/ EofEvent
    \/ ReaderError

Spec == Init /\ [][Next]_vars

-----------------------------------------------------------------------------
(* Properties of parse_rss *)

\* The step reads character data (text whose entities resolve, or CDATA).
TextRead ==
    /\ outcome = "running"
    /\ nevents' = nevents + 1
    /\ last'.kind \in {"Text", "CData"}
    /\ last'.kind = "Text" => xml_unescape(last'.text).ok

\* The innermost open element is an unknown one, directly inside `parent`.
InUnknownOf(parent) ==
    /\ Len(reader) >= 2
    /\ Last(reader) \in UnknownNames
    /\ reader[Len(reader) - 1] = parent

C7_stated ==
    outcome = "ok" =>
        /\ (root.name = "rss" /\ version_attr(root) \in RssVersions) =>
              rss_data.version = version_attr(root)
        /\ root.name = "rdf:RDF" =>
              (context.rss_version = "Rss1_0" /\ rss_data.version = "1.0")

\* C8 (as stated): an <rss> root whose version attribute is none of the five
\* version strings never leads to a feed being returned.
C8_stated ==
    (root.name = "rss" /\ ~RssVersion_from_str(version_attr(root)).ok) =>
        outcome # "ok"

-----------------------------------------------------------------------------
(* Specification SpecSan: the two sanitizers applied to a string *)

SanChars == {"a", AMP, LT, "\\0", "\n"}
RawStrings == UNION {[1..n -> SanChars] : n \in 0..MaxLen}

InitSan ==
    /\ raw \in RawStrings
    /\ sanitized = NotSanitized
    /\ ParserIdle /\ FeedIdle /\ StoreIdle /\ DocIdle

\* sanitize_content(raw), and sanitize_content of that result
ApplySanitizeContent ==
    /\ sanitized = NotSanitized
    /\ sanitized' = [fn |-> "sanitize_content",
                     once |-> sanitize_content(raw),
                     twice |-> sanitize_content(sanitize_content(raw))]
    /\ UNCHANGED <<raw, parserVars, feedVars, storeVars, docVars>>

\* sanitize_input(raw), and sanitize_input of that result
ApplySanitizeInput ==
    /\ sanitized = NotSanitized
    /\ sanitized' = [fn |-> "sanitize_input",
                     once |-> sanitize_input(raw),
                     twice |-> sanitize_input(sanitize_input(raw))]
    /\ UNCHANGED <<raw, parserVars, feedVars, storeVars, docVars>>

NextSan ==
    \/ ApplySanitizeContent
    \/ ApplySanitizeInput

SpecSan == InitSan /\ [][NextSan]_vars

\* C5 (as stated): sanitizing a sanitized string changes nothing, for both
\* sanitize_content and sanitize_input.
C5_stated == sanitized.fn # "" => sanitized.twice = sanitized.once

-----------------------------------------------------------------------------
(* Specification SpecItems: a feed's item sequence edited through add_item, *)
(* remove_item and clear_items, and validated                               *)

Guids == {<<>>, <<"a">>, <<"b">>, <<AMP>>}

\* RssItem::new().guid(g)
ItemWithGuid(g) == RssItem_set(RssItem_new, "guid", g)
Holds(items, item) == \E i \in 1..Len(items) : items[i] = item

InitItems ==
    /\ store = RssData_new(RssVersion_default)
    /\ removal = NoRemoval
    /\ checked = NotRun
    /\ ParserIdle /\ FeedIdle /\ SanIdle /\ DocIdle

\* feed.add_item(RssItem::new().guid(g))
AddItem ==
    /\ item_count(store) < MaxItems
    /\ \E g \in Guids : store' = add_item(store, ItemWithGuid(g))
    /\ checked' = NotRun
    /\ UNCHANGED <<removal, parserVars, feedVars, sanVars, docVars>>

\* feed.remove_item(g)
RemoveItem ==
    /\ \E g \in Guids :
          LET r == remove_item(store, g) IN
          /\ store' = r.data
          /\ removal' = [called |-> TRUE, guid |-> g, removed |-> r.removed,
                         held |-> Holds(store.items, ItemWithGuid(g)),
                         holds |-> Holds(r.data.items, ItemWithGuid(g)),
                         turn |-> 1 - removal.turn]
    /\ checked' = NotRun
    /\ UNCHANGED <<parserVars, feedVars, sanVars, docVars>>

\* feed.clear_items()
ClearItems ==
    /\ store' = clear_items(store)
    /\ checked' = NotRun
    /\ UNCHANGED <<removal, parserVars, feedVars, sanVars, docVars>>

\* validate_rss_feed(&feed)
ValidateStore ==
    /\ checked = NotRun
    /\ checked' = validate_rss_feed(store)
    /\ UNCHANGED <<store, removal, parserVars, feedVars, sanVars, docVars>>

NextItems ==
    \/ AddItem
    \/ RemoveItem
    \/ ClearItems
    \/ ValidateStore

SpecItems == InitItems /\ [][NextItems]_vars

\* The duplicate-GUID errors among the messages a validation returned.
IsDuplicateError(e) == Len(e) >= 2 /\ e[2] = "Duplicate GUID found: "
DuplicateErrors(errors) == SelectSeq(errors, IsDuplicateError)
NamedGuid(e) == SubSeq(e, 3, Len(e))
GuidsOf(items) == {items[i].guid : i \in 1..Len(items)}

\* C4: the validator reports, for every GUID, one duplicate error naming it
\* for each item carrying it after the first; so the number of duplicate
\* errors is the item count minus the number of distinct GUIDs.
C4_duplicate_guids ==
    checked.kind # "none" =>
        LET dups == DuplicateErrors(checked.errors)
            items == store.items
        IN  /\ Len(dups) = Len(items) - Cardinality(GuidsOf(items))
            /\ \A i \in 1..Len(dups) : NamedGuid(dups[i]) \in GuidsOf(items)
            /\ \A g \in GuidsOf(items) :
                  Cardinality({i \in 1..Len(dups) : NamedGuid(dups[i]) = g})
                  = Cardinality({i \in 1..Len(items) : items[i].guid = g}) - 1

\* Items [a, b, a] validated: exactly one duplicate error, naming a.
C4_witness ==
    /\ checked.kind = "err"
    /\ Len(store.items) = 3
    /\ store.items[1].guid = <<"a">>
    /\ store.items[2].guid = <<"b">>
    /\ store.items[3].guid = <<"a">>
    /\ Len(DuplicateErrors(checked.errors)) = 1
    /\ NamedGuid(DuplicateErrors(checked.errors)[1]) = <<"a">>

\* C10 (as stated): when the feed holds an item built with guid(g),
\* remove_item(g) returns true and the feed holds that item no more.
C10_stated ==
    (removal.called /\ removal.held) => (removal.removed /\ ~removal.holds)

-----------------------------------------------------------------------------
(* Specification SpecFeed: a feed built through the setters, then given to *)
(* generate_rss (and its output to parse_rss) and to validate_rss_feed     *)

HttpUrl == <<"http://", "a">>
FtpUrl  == <<"ftp://", "a">>
FiveChars  == <<AMP, LT, GT, QUOT, APOS>>          \* &<>"'
Url2000    == <<"http://", LongRun, "a">>          \* 2000 characters
Url2001    == <<"http://", LongRun, "a", "a">>     \* 2001 characters
FtpUrl2001 == <<"ftp://", LongRun, "a", "a">>      \* 2001 characters
RfcDate   == <<RfcBody, GMT_SUFFIX>>       \* "Mon, 01 Jan 2024 00:00:00 GMT"
ShortDate == <<ShortBody, GMT_SUFFIX>>     \* "Mon, 01 Jan 2024 12 GMT"

\* The values the setters are called with, by field.
UrlFields  == {"link", "atom_link", "image_url", "image_link"}
DateFields == {"pub_date", "last_build_date"}
FieldValues(field) ==
    IF field = "link" THEN {HttpUrl, FtpUrl, Url2000, Url2001, FtpUrl2001, <<"a">>}
    ELSE IF field \in UrlFields THEN {HttpUrl, FtpUrl}
    ELSE IF field \in DateFields THEN {RfcDate, ShortDate, <<BadDate>>}
    ELSE IF field = "title" THEN {<<"x">>, <<AMP>>, FiveChars}
    ELSE IF field = "description" THEN {<<"x">>, <<AMP>>, EMPTY}
    ELSE {<<"x">>}

\* The values the item setters are called with.
ItemFieldValues == {FiveChars}

\* RssItem::new().title("x").link(..).guid("a").description("x").pub_date(..)
ValidItem ==
    RssItem_set(RssItem_set(RssItem_set(RssItem_set(RssItem_set(RssItem_new,
        "title", <<"x">>), "link", HttpUrl), "guid", <<"a">>),
        "description", <<"x">>), "pub_date", RfcDate)

\* RssData::new(Some(version)).title("x").link(..).description("x") with one
\* item added.
BaseFeed(version) ==
    add_item(RssData_set(RssData_set(RssData_set(RssData_new(version),
        "title", <<"x">>), "link", HttpUrl), "description", <<"x">>), ValidItem)

\* The 2.0 feed with the generator and the atom link set as well.
FullFeed ==
    RssData_set(RssData_set(BaseFeed("2.0"), "generator", <<"x">>),
                "atom_link", HttpUrl)

\* The full feed after set_image("i", "http://u", "http://l").
ImageFeed == set_image(FullFeed, <<"i">>, <<"http://", "u">>, <<"http://", "l">>)

\* A feed with a second item, of which only the GUID is set.
SparseFeed(version) == add_item(BaseFeed(version), ItemWithGuid(<<"b">>))

\* A feed with a third item, of which only the publication date, a value
\* without the " GMT" suffix, and the link, of 2001 characters, are set.
DatedFeed(version) ==
    add_item(SparseFeed(version),
             RssItem_set(RssItem_set(RssItem_new, "pub_date", <<BadDate>>),
                         "link", FtpUrl2001))

StartFeeds ==
    {RssData_new(v) : v \in RssVersions} \cup {BaseFeed(v) : v \in RssVersions}
    \cup {FullFeed, ImageFeed}
    \cup {DatedFeed(v) : v \in RssVersions}

InitFeed ==
    /\ feed \in StartFeeds
    /\ arg = [field |-> "", value |-> EMPTY, item |-> 0]
    /\ generated = NotGenerated
    /\ reparsed = parse_start
    /\ validated = NotRun
    /\ nsets = 0
    /\ ParserIdle /\ StoreIdle /\ SanIdle /\ DocIdle

\* feed.set(field, value), before the feed is used
SetField ==
    /\ nsets < MaxSets
    /\ generated = NotGenerated /\ validated = NotRun
    /\ \E field \in RssDataFields : \E value \in FieldValues(field) :
          /\ feed' = RssData_set(feed, field, value)
          /\ arg' = [field |-> field, value |-> value, item |-> 0]
    /\ nsets' = nsets + 1
    /\ UNCHANGED <<generated, reparsed, validated, parserVars, storeVars, sanVars,
                   docVars>>

\* feed.items[i] = feed.items[i].set(field, value), i the last item (and the
\* setter methods of RssItem, which all go through set)
SetItemField ==
    /\ nsets < MaxSets
    /\ generated = NotGenerated /\ validated = NotRun
    /\ feed.items # <<>>
    /\ \E field \in RssItemFields : \E value \in ItemFieldValues :
          /\ feed' = [feed EXCEPT !.items[Len(feed.items)] =
                                      RssItem_set(@, field, value)]
          /\ arg' = [field |-> field, value |-> value, item |-> Len(feed.items)]
    /\ nsets' = nsets + 1
    /\ UNCHANGED <<generated, reparsed, validated, parserVars, storeVars, sanVars,
                   docVars>>

\* generate_rss(&feed)
Generate ==
    /\ generated = NotGenerated
    /\ generated' = generate_rss(feed)
    /\ UNCHANGED <<feed, arg, reparsed, validated, nsets, parserVars, storeVars,
                   sanVars, docVars>>

\* parse_rss(&xml, None) on the XML generated
Reparse ==
    /\ generated.kind = "ok"
    /\ reparsed.outcome = "running"
    /\ reparsed' = parse_rss(generated.xml, NoConfig)
    /\ UNCHANGED <<feed, arg, generated, validated, nsets, parserVars, storeVars,
                   sanVars, docVars>>

\* validate_rss_feed(&feed), called once the generation and the parse of its
\* result are over: the three calls read the feed only, so their order shows
\* nothing more.
Validate ==
    /\ validated = NotRun
    /\ generated # NotGenerated
    /\ generated.kind = "ok" => reparsed.outcome # "running"
    /\ validated' = validate_rss_feed(feed)
    /\ UNCHANGED <<feed, arg, generated, reparsed, nsets, parserVars, storeVars,
                   sanVars, docVars>>

NextFeed ==
    \/ SetField
    \/ SetItemField
    \/ Generate
    \/ Reparse
    \/ Validate

SpecFeed == InitFeed /\ [][NextFeed]_vars

Range(seq) == {seq[i] : i \in 1..Len(seq)}

\* The fields a dialect's output has a place for: the image and the atom link
\* belong to 2.0; no dialect writes copyright, author or the feed's GUID.
LegalFields(data) ==
    /\ data.version # "2.0" =>
          /\ data.image_title = EMPTY /\ data.image_url = EMPTY
          /\ data.image_link = EMPTY /\ data.atom_link = EMPTY
    /\ data.copyright = EMPTY /\ data.author = EMPTY /\ data.guid = EMPTY

\* C1 (as stated): for a feed holding only fields legal in its dialect that
\* passes validation, parsing the generated XML succeeds and returns the same
\* version, the same value of every string field and the same number of items.
C1_stated ==
    (reparsed.outcome # "running" /\ LegalFields(feed)
     /\ validate_rss_feed(feed).kind = "ok") =>
        /\ reparsed.outcome = "ok"
        /\ reparsed.rss_data.version = feed.version
        /\ \A f \in RssDataFields : reparsed.rss_data[f] = feed[f]
        /\ item_count(reparsed.rss_data) = item_count(feed)

\* The five rule groups of the validator, in the order they run.
RuleGroups(data) ==
    << validate_rss_data(data), validate_structure(data), validate_items(data),
       validate_dates(data), validate_version_specific(data) >>

\* The 2.0 feed with no title, link, description, item, atom link or generator.
EmptyFeed(data) ==
    /\ data.version = "2.0"
    /\ data.title = EMPTY /\ data.link = EMPTY /\ data.description = EMPTY
    /\ data.items = <<>> /\ data.atom_link = EMPTY /\ data.generator = EMPTY

BasicProblem(data) ==
    \/ data.title = EMPTY
    \/ data.link = EMPTY
    \/ ~validate_url(data.link).ok
    \/ data.description = EMPTY
    \/ (data.pub_date # EMPTY /\ parse_date(data.pub_date) # "ok")

\* C6 (as stated): generate_rss returns an error exactly when the basic
\* validation has a problem to report, then with no XML; in every other case
\* it returns XML.
C6_stated ==
    generated # NotGenerated =>
        /\ generated.kind = "err" <=> BasicProblem(feed)
        /\ generated.kind = "err" => (generated.errors # <<>> /\ generated.xml = <<>>)
        /\ generated.kind # "err" => (generated.kind = "ok" /\ generated.xml # <<>>)

\* The channel fields write_channel_elements writes, and the tag of each.
WrittenFields == {"title", "link", "description", "language", "pub_date",
                  "last_build_date", "docs", "generator", "managing_editor",
                  "webmaster", "category", "ttl"}
written_tag(field) ==
    CASE field = "pub_date"        -> "pubDate"
      [] field = "last_build_date" -> "lastBuildDate"
      [] field = "managing_editor" -> "managingEditor"
      [] field = "webmaster"       -> "webMaster"
      [] OTHER                     -> field

\* The text written in the first element of the given name.
element_text(xml, name) ==
    LET i == CHOOSE i \in 1..Len(xml) :
                 /\ xml[i].kind = "Start" /\ xml[i].name = name
                 /\ \A j \in 1..(i - 1) :
                       ~(xml[j].kind = "Start" /\ xml[j].name = name)
    IN  xml[i + 1].text

\* C9 (as stated): the text generate_rss writes for a field set through a
\* setter is the stored value, which is the input escaped once.
C9_stated ==
    (generated.kind = "ok" /\ arg.item = 0 /\ arg.field \in WrittenFields) =>
        /\ feed[arg.field] = escape_html(arg.value)
        /\ element_text(generated.xml, written_tag(arg.field)) = feed[arg.field]

\* The fields of a feed other than its items.
ScalarsOf(data) == [f \in RssDataFields \cup {"version"} |-> data[f]]

\* The items of a sequence whose GUID is not g, in their order: the k-th of
\* them is the item at the k-th smallest index whose GUID differs from g.
OthersThan(items, g) ==
    LET keep == {i \in 1..Len(items) : items[i].guid # g}
        nth(k) == CHOOSE i \in keep : Cardinality({j \in keep : j < i}) = k - 1
    IN  [k \in 1..Cardinality(keep) |-> items[nth(k)]]

\* C11: a call of remove_item(guid) leaves exactly the items whose stored GUID
\* differs from the argument, in their original order, changes no scalar
\* field, and returns true exactly when some item had that GUID.
C11_remove_item_frame ==
    [][ removal'.turn # removal.turn =>
          /\ store'.items = OthersThan(store.items, removal'.guid)
          /\ ScalarsOf(store') = ScalarsOf(store)
          /\ removal'.removed <=>
                (\E i \in 1..Len(store.items) : store.items[i].guid = removal'.guid)
      ]_vars

\* remove_item has just removed an item and left others in the feed.
C11_witness ==
    /\ removal.called /\ removal.removed
    /\ checked = NotRun
    /\ store.items # <<>>
    /\ \A i \in 1..Len(store.items) : store.items[i].guid # removal.guid

\* Where each event of a document lies: the names of the elements open around
\* it, and how many <item> start tags came before it or with it.
RECURSIVE locate(_, _, _)
locate(xml, path, item) ==
    IF xml = <<>> THEN <<>>
    ELSE LET e == Head(xml)
             n == IF e.kind = "Start" /\ e.name = "item" THEN item + 1 ELSE item
         IN  << [path |-> path, item |-> n] >>
             \o locate(Tail(xml),
                       IF e.kind = "Start" THEN Append(path, e.name)
                       ELSE IF e.kind = "End" THEN Front(path) ELSE path,
                       n)
Located(xml) == locate(xml, <<>>, 0)

\* The root element of a document: its first start event.
RootOf(xml) == xml[CHOOSE i \in 1..Len(xml) :
                      xml[i].kind = "Start"
                      /\ \A j \in 1..(i - 1) : xml[j].kind # "Start"]

\* The indices of the elements (start or empty tags) of the given name.
ElementsNamed(xml, name) ==
    {i \in 1..Len(xml) : xml[i].kind \in {"Start", "Empty"} /\ xml[i].name = name}

\* The item fields write_item writes; their tags are those of the channel's.
WrittenItemFields == {"title", "link", "description", "guid", "pub_date", "author"}
OptionalChannelFields == WrittenFields \ {"title", "link", "description"}

\* C12: the XML generate_rss returns holds no channel-level element for an
\* empty optional channel field, no element of an item for an empty field of
\* that item, no <image> when image_url is empty and no <atom:link> when
\* atom_link is empty.
C12_omit_if_empty ==
    generated.kind = "ok" =>
        LET xml == generated.xml
            at == Located(xml)
            top == RootOf(xml).name
        IN  /\ \A f \in OptionalChannelFields :
                  feed[f] = EMPTY =>
                     \A i \in ElementsNamed(xml, written_tag(f)) :
                        at[i].path # <<top, "channel">>
            /\ \A k \in 1..Len(feed.items) : \A f \in WrittenItemFields :
                  feed.items[k][f] = EMPTY =>
                     \A i \in ElementsNamed(xml, written_tag(f)) :
                        ~(at[i].path = <<top, "channel", "item">> /\ at[i].item = k)
            /\ feed.image_url = EMPTY => ElementsNamed(xml, "image") = {}
            /\ feed.atom_link = EMPTY => ElementsNamed(xml, "atom:link") = {}

\* XML was generated for a feed whose second item has a GUID only and whose
\* language, image URL and atom link are empty.
C12_witness ==
    /\ generated.kind = "ok"
    /\ Len(feed.items) = 3 /\ feed.items[2].title = EMPTY
    /\ feed.language = EMPTY /\ feed.image_url = EMPTY /\ feed.atom_link = EMPTY
    /\ Cardinality(ElementsNamed(generated.xml, "item")) = 3

\* The root start tag fixed for each dialect.
RootTemplate(version) ==
    CASE version \in {"0.90", "0.91", "0.92"} ->
            Start("rss", << <<"version", <<version>> >> >>)
      [] version = "1.0" ->
            Start("rdf:RDF",
                  << <<"xmlns:rdf", <<"http://www.w3.org/1999/02/22-rdf-syntax-ns#">> >>,
                     <<"xmlns", <<"http://purl.org/rss/1.0/">> >> >>)
      [] version = "2.0" ->
            Start("rss", << <<"version", <<"2.0">> >>,
                            <<"xmlns:atom", <<"http://www.w3.org/2005/Atom">> >> >>)

\* C13: the XML generate_rss returns has exactly one root element, whose start
\* tag is the one fixed for the feed's dialect; an <image> block and an
\* <atom:link> are written for dialect 2.0 only, there when the image URL,
\* respectively the atom link, is not empty.
C13_dialect_dispatch ==
    generated.kind = "ok" =>
        LET xml == generated.xml
            at == Located(xml)
        IN  /\ Cardinality({i \in 1..Len(xml) :
                               xml[i].kind = "Start" /\ at[i].path = <<>>}) = 1
            /\ RootOf(xml) = RootTemplate(feed.version)
            /\ xml[Len(xml)] = End(RootOf(xml).name)
            /\ ElementsNamed(xml, "image") # {} <=>
                  (feed.version = "2.0" /\ feed.image_url # EMPTY)
            /\ ElementsNamed(xml, "atom:link") # {} <=>
                  (feed.version = "2.0" /\ feed.atom_link # EMPTY)

\* XML was generated for a 1.0 feed whose atom link is set.
C13_witness ==
    /\ generated.kind = "ok"
    /\ feed.version = "1.0" /\ feed.atom_link # EMPTY
    /\ RootOf(generated.xml).name = "rdf:RDF"

-----------------------------------------------------------------------------
(* C14: the date rules of the validator *)

\* The date values the validator looks at, each with the field name it
\* reports it under.
DateSlots(data) ==
    << [field |-> "pubDate", value |-> data.pub_date],
       [field |-> "lastBuildDate", value |-> data.last_build_date] >>
    \o [i \in 1..Len(data.items) |->
          [field |-> "item[" \o ToString(i - 1) \o "].pubDate",
           value |-> data.items[i].pub_date]]

\* The date-format errors among errs that are reported under the field.
DateFormatErrors(errs, field) ==
    {i \in 1..Len(errs) : /\ errs[i].field = field
                          /\ Head(errs[i].message) = "Invalid date format: "}

-----------------------------------------------------------------------------
(* C15: the structural URL rule of the validator *)

\* The links the structural rule looks at, each with the field name it reports
\* it under.
LinkSlots(data) ==
    << [field |-> "channel link", value |-> data.link] >>
    \o [i \in 1..Len(data.items) |->
          [field |-> "item[" \o ToString(i - 1) \o "] link",
           value |-> data.items[i].link]]

\* The errors among errs that are reported under the field.
ErrorsFor(errs, field) == {i \in 1..Len(errs) : errs[i].field = field}

IsLengthError(e) == e.message = <<"URL exceeds maximum length of 2000 characters">>

\* C15: for the channel link and every item link, a URL of more than 2000
\* characters gets the length error and no other, whether or not it would
\* parse; a URL of at most 2000 characters gets an error, which is not the
\* length error, exactly when it does not parse or its scheme is neither http
\* nor https; no URL gets more than one error, and a validation that returns
\* hands every one of these errors to the caller.
C15_url_rule ==
    LET errs == validate_structure(feed) IN
    /\ \A s \in Range(LinkSlots(feed)) :
          LET mine == ErrorsFor(errs, s.field) IN
          /\ Cardinality(mine) <= 1
          /\ str_len(s.value) > 2000
                => \E i \in mine : IsLengthError(errs[i])
          /\ str_len(s.value) <= 2000
                => /\ \A i \in mine : ~IsLengthError(errs[i])
                   /\ mine # {} <=> \/ ~Url_parse(s.value).ok
                                    \/ Url_parse(s.value).scheme \notin {"http", "https"}
          /\ validated.kind \in {"ok", "err"}
                => \A i \in mine : to_string(errs[i]) \in Range(validated.errors)

\* A validation that returned for a channel link of exactly 2000 characters,
\* which got no error, in a feed with an item link of 2001 characters and the
\* ftp scheme, which got the length error.
C15_witness ==
    /\ validated.kind = "err"
    /\ feed.link = Url2000
    /\ str_len(feed.link) = 2000
    /\ \A i \in 1..Len(validated.errors) :
          Len(validated.errors[i]) >= 3 => validated.errors[i][3] # "channel link"
    /\ Len(feed.items) = 3 /\ feed.items[3].link = FtpUrl2001
    /\ <<"Validation error: ", "URL exceeds maximum length of 2000 characters">>
          \in Range(validated.errors)

-----------------------------------------------------------------------------
(* C16: the dialect-specific rules of the validator *)

GeneratorError == ValidationError("generator", <<"generator is recommended for RSS 2.0 feeds">>)
AtomLinkError  == ValidationError("atom_link", <<"atom:link is required for RSS 2.0 feeds">>)
ItemGuidError  == ValidationError("guid", <<"All items must have a guid in RSS 1.0">>)

\* C16: the dialect rules add no error for 0.90, 0.91 and 0.92; for 1.0 they
\* add the GUID error, once, exactly when some item has an empty GUID; for 2.0
\* they add the generator error exactly when the generator is empty and the
\* atom-link error exactly when atom_link is empty, and nothing else; a
\* validation that returns hands these errors to the caller, and reports no
\* generator error outside 2.0 and no GUID-presence error outside 1.0.
C16_dialect_rules ==
    LET errs == validate_version_specific(feed) IN
    /\ feed.version \in {"0.90", "0.91", "0.92"} => errs = <<>>
    /\ feed.version = "1.0" =>
          /\ Range(errs) \subseteq {ItemGuidError}
          /\ Len(errs) <= 1
          /\ errs # <<>> <=> \E i \in 1..Len(feed.items) : feed.items[i].guid = EMPTY
    /\ feed.version = "2.0" =>
          /\ Range(errs) \subseteq {GeneratorError, AtomLinkError}
          /\ GeneratorError \in Range(errs) <=> feed.generator = EMPTY
          /\ AtomLinkError \in Range(errs) <=> feed.atom_link = EMPTY
    /\ validated.kind \in {"ok", "err"} =>
          /\ \A i \in 1..Len(errs) : to_string(errs[i]) \in Range(validated.errors)
          /\ feed.version # "2.0" => to_string(GeneratorError) \notin Range(validated.errors)
          /\ feed.version # "1.0" => to_string(ItemGuidError) \notin Range(validated.errors)

\* A validation that returned the GUID error for a 1.0 feed with an item
\* without GUID.
C16_witness ==
    /\ validated.kind = "err"
    /\ feed.version = "1.0"
    /\ \E i \in 1..Len(feed.items) : feed.items[i].guid = EMPTY
    /\ feed.generator = EMPTY /\ feed.atom_link = EMPTY
    /\ to_string(ItemGuidError) \in Range(validated.errors)
    /\ to_string(GeneratorError) \notin Range(validated.errors)

-----------------------------------------------------------------------------
(* C17: the setters of RssData and RssItem *)

\* A character with the five characters & < > " ' escaped, and a string.
EscapedChar(c) ==
    CASE c = AMP  -> <<AMP, "amp;">>
      [] c = LT   -> <<AMP, "lt;">>
      [] c = GT   -> <<AMP, "gt;">>
      [] c = QUOT -> <<AMP, "quot;">>
      [] c = APOS -> <<AMP, "#x27;">>
      [] OTHER    -> <<c>>
Escaped(s) == Flatten([i \in 1..Len(s) |-> EscapedChar(s[i])])

\* C17: a setter call of the feed stores the escaped form of its argument in
\* the named field and leaves every other field, the items and the dialect as
\* they were; a setter call of an item stores the escaped form (as Some(..)
\* for an optional field) in the named field of that item and leaves its other
\* fields, the other items and the whole channel as they were.
C17_setters_frame ==
    [][ nsets' # nsets =>
          LET field == arg'.field
              value == arg'.value
              k     == arg'.item
          IN  IF k = 0
              THEN /\ feed'[field] = Escaped(value)
                   /\ \A f \in (DOMAIN feed) \ {field} : feed'[f] = feed[f]
                   /\ DOMAIN feed' = DOMAIN feed
                   /\ feed'.items = feed.items
                   /\ feed'.version = feed.version
              ELSE /\ feed'.items[k][field] =
                         (IF field \in OptionalItemFields THEN Some(Escaped(value))
                          ELSE Escaped(value))
                   /\ \A f \in (DOMAIN feed.items[k]) \ {field} :
                         feed'.items[k][f] = feed.items[k][f]
                   /\ Len(feed'.items) = Len(feed.items)
                   /\ \A j \in (1..Len(feed.items)) \ {k} : feed'.items[j] = feed.items[j]
                   /\ \A f \in (DOMAIN feed) \ {"items"} : feed'[f] = feed[f]
      ]_vars

\* The title of a populated feed was set to the five characters: they are
\* stored escaped, and the link and the items are still there.
C17_witness ==
    /\ nsets > 0 /\ arg.item = 0
    /\ arg.field = "title" /\ arg.value = FiveChars
    /\ feed.title = <<AMP, "amp;", AMP, "lt;", AMP, "gt;", AMP, "quot;", AMP, "#x27;">>
    /\ feed.link = HttpUrl
    /\ Len(feed.items) = 3

-----------------------------------------------------------------------------
(* C18: the end of an item *)

\* C18 as stated: every </item> end event leaves the parser in scope None and
\* appends current_item to the feed, whatever the scope was before it.
C18_stated ==
    [][ (nevents' = nevents + 1 /\ last' = End("item")) =>
           /\ context'.parsing_state = "None"
           /\ rss_data'.items = Append(rss_data.items, context.current_item)
      ]_vars

-----------------------------------------------------------------------------
(* C19: the structural elements of RSS 1.0 *)

\* C19 as stated: character data read in channel scope while the current
\* element is items, rdf:Seq or rdf:li is accepted when the root start event
\* was <rdf:RDF>, and ends the parse with UnknownElement when it was <rss>.
C19_stated ==
    [][ (TextRead /\ context.parsing_state = "Channel"
         /\ context.current_element \in RdfElements) =>
           /\ root.name = "rdf:RDF" =>
                 (outcome' = "running" \/ error' = "HandlerError")
           /\ root.name = "rss" =>
                 (outcome' = "err" /\ error' = "UnknownElement") ]_vars

-----------------------------------------------------------------------------
(* C20: the enclosure of an item *)

\* The enclosure the attributes stand for.
EnclosureOf(attrs) ==
    IF attrs = <<>> THEN None ELSE Some(join_attributes(attrs))

\* C20 as stated: once an <enclosure> element inside an item is over, at its
\* end tag or at once when it is self-closing, the item's enclosure is the
\* space-joined key="value" string of its attributes, or None when it has
\* none, whether or not there was text in it.
C20_stated ==
    [][ /\ (nevents' = nevents + 1 /\ last' = End("enclosure")
            /\ context.parsing_state = "Item"
            /\ context.current_element = "enclosure") =>
              context'.current_item.enclosure = EnclosureOf(context.current_attributes)
        /\ (nevents' = nevents + 1 /\ last'.kind = "Empty"
            /\ last'.name = "enclosure" /\ context.parsing_state = "Item") =>
              context'.current_item.enclosure = EnclosureOf(last'.attrs) ]_vars

-----------------------------------------------------------------------------
(* C21: what a text or CDATA event may change *)

\* The feed fields parse_channel_element writes.
ChannelLevelFields == {channel_field(e) : e \in ChannelElements}
ImageAccumulator == {"image_title", "image_url", "image_link"}

\* The records agree on every field outside `fields`.
SameExcept(after, before, fields) ==
    /\ DOMAIN after = DOMAIN before
    /\ \A f \in (DOMAIN before) \ fields : after[f] = before[f]

\* C21: a text or CDATA event never changes the feed's items, the scope, the
\* current element or its attributes; in Channel scope it changes at most
\* channel-level fields of the feed, in Item scope at most current_item, in
\* Image scope at most the image accumulator, and in scope None or with an
\* empty current element nothing at all.
C21_text_frame ==
    [][ (nevents' = nevents + 1 /\ last'.kind \in {"Text", "CData"}) =>
          /\ rss_data'.items = rss_data.items
          /\ SameExcept(context', context, {"current_item"} \cup ImageAccumulator)
          /\ context.parsing_state = "Channel" =>
                /\ context' = context
                /\ SameExcept(rss_data', rss_data, ChannelLevelFields)
          /\ context.parsing_state = "Item" =>
                /\ rss_data' = rss_data
                /\ SameExcept(context', context, {"current_item"})
          /\ context.parsing_state = "Image" =>
                /\ rss_data' = rss_data
                /\ SameExcept(context', context, ImageAccumulator)
          /\ (context.parsing_state = "None" \/ context.current_element = "") =>
                /\ rss_data' = rss_data
                /\ context' = context
      ]_vars

\* <rss><image><title>x: the text went to the image accumulator and left the
\* feed and the current item empty.
C21_witness ==
    /\ last.kind = "Text" /\ outcome = "running"
    /\ context.parsing_state = "Image" /\ context.current_element = "title"
    /\ context.image_title = <<"x">>
    /\ rss_data.title = EMPTY
    /\ context.current_item = RssItem_new

-----------------------------------------------------------------------------
(* C22: no leakage between items *)

\* Every value the item holds is one of the texts, or the attribute string of
\* an enclosure that some text was read in.
FromTexts(item, texts) ==
    /\ \A f \in {"guid", "title", "link", "description", "pub_date", "author"} :
          item[f] = EMPTY \/ item[f] \in texts
    /\ \A f \in {"category", "comments", "source"} :
          item[f] = None \/ \E v \in texts : item[f] = Some(v)
    /\ item.enclosure = None
       \/ (texts # {} /\ item.enclosure = EnclosureOf(EnclosureAttrs))

\* C22: an <item> start replaces current_item by a fresh empty item; the feed's
\* items change only at an </item> end event, which appends at most one item,
\* and the appended item holds only values of text or CDATA events read since
\* the <item> start that the end tag closes.
C22_no_leakage ==
    [][ nevents' = nevents + 1 =>
          /\ (last'.kind = "Start" /\ last'.name = "item") =>
                context'.current_item = RssItem_new
          /\ last' # End("item") => rss_data'.items = rss_data.items
          /\ last' = End("item") =>
                \/ rss_data'.items = rss_data.items
                \/ \E item \in {context.current_item} :
                      /\ rss_data'.items = Append(rss_data.items, item)
                      /\ FromTexts(item, item_texts)
      ]_vars

\* <rss><item><title>x</title></item>: the item appended holds the title
\* read inside it and nothing else.
C22_witness ==
    /\ last = End("item")
    /\ reader = <<"rss">>
    /\ rss_data.items = << [RssItem_new EXCEPT !.title = <<"x">>] >>

-----------------------------------------------------------------------------
(* C23: parsing is fail-fast *)

SpecialNames == {"rss", "rdf:RDF", "channel", "item", "image"}

\* The event is character data that the reader could unescape.
ReadableText(ev) ==
    /\ ev.kind \in {"Text", "CData"}
    /\ ev.kind = "Text" => xml_unescape(ev.text).ok

\* The built-in dispatch of character data fails in the state.
DispatchFails ==
    /\ context.parsing_state = "Channel"
    /\ context.current_element \notin ChannelElements \cup {""}

\* Some registered handler rejects the current element.
HandlerFails ==
    /\ config # NoConfig
    /\ \E i \in 1..Len(config) : context.current_element \in config[i].rejects

\* C23: an event that raises a fatal condition (an error of the reader, an
\* unknown element started in scope None, character data of an unknown
\* channel element, a handler failure) ends the parse with that error; once
\* the parse has failed no event is processed and nothing of the parser
\* changes any more, and what the caller gets holds the error and no feed.
C23_fail_fast ==
    [][ /\ nevents' = nevents + 1 =>
              /\ last'.kind = "Error" =>
                    (outcome' = "err" /\ error' = "XmlParseError")
              /\ (last'.kind = "Start" /\ last'.name \notin SpecialNames
                  /\ context.parsing_state = "None") =>
                    (outcome' = "err" /\ error' = "UnknownElement")
              /\ (ReadableText(last') /\ DispatchFails) =>
                    (outcome' = "err" /\ error' = "UnknownElement")
              /\ (ReadableText(last') /\ ~DispatchFails /\ HandlerFails) =>
                    (outcome' = "err" /\ error' = "HandlerError")
        /\ outcome = "err" =>
              /\ UNCHANGED parserVars
              /\ parse_result(outcome, rss_data, error) =
                    [ok |-> FALSE, feed |-> <<>>, error |-> error]
      ]_vars

\* <rss><item></item><bogus>: the parse failed after an item was appended.
C23_witness ==
    /\ outcome = "err" /\ error = "UnknownElement"
    /\ last = Start("bogus", <<>>)
    /\ Len(rss_data.items) = 1
    /\ ~parse_result(outcome, rss_data, error).ok

-----------------------------------------------------------------------------
(* C24: custom element handlers *)

\* The parser variables after the step are what parse_rss computes from the
\* state before it for the last event under the configuration cfg.
StepsAs(cfg) ==
    LET st == parse_event(ParseState(context, rss_data, outcome, error, calls),
                          last', cfg)
    IN  /\ context' = st.context /\ rss_data' = st.rss_data
        /\ outcome' = st.outcome /\ error' = st.error /\ calls' = st.calls

\* C24: when a handler that was called for a text or CDATA event returns an
\* error, the parse fails with the handler's error; without config and with
\* an empty handler list every event is processed exactly as it is without
\* handlers, and no handler is called.
C24_handlers ==
    [][ nevents' = nevents + 1 =>
          /\ (config # NoConfig /\ last'.kind \in {"Text", "CData"}
              /\ \E i \in 1..Len(config) :
                    /\ config[i].id \in Range(calls')
                    /\ context.current_element \in config[i].rejects) =>
                (outcome' = "err" /\ error' = "HandlerError")
          /\ (config = NoConfig \/ config = <<>>) =>
                (StepsAs(NoConfig) /\ StepsAs(<<>>) /\ calls' = <<>>)
      ]_vars

\* <rss><channel><title>x with a handler that rejects title: the dispatch
\* stored the title, the second handler failed and the parse with it.
C24_witness ==
    /\ outcome = "err" /\ error = "HandlerError"
    /\ last = Text(<<"x">>)
    /\ context.parsing_state = "Channel" /\ context.current_element = "title"
    /\ calls = <<1, 2>>

-----------------------------------------------------------------------------
(* Specification SpecDoc: parse_rss on whole documents
   <rss><channel> child ... child </channel></rss> *)

MaxChildren == 3

\* The children a <channel> is given: an empty item, an item with a title,
\* an image with a url, and the channel-level scalars title and lastBuildDate.
ChildKinds == {"item", "titled_item", "image", "title", "lastBuildDate"}

Element(name, text) == <<Start(name, <<>>), Text(text), End(name)>>

child_events(kind) ==
    CASE kind = "item"        -> <<Start("item", <<>>), End("item")>>
      [] kind = "titled_item" -> <<Start("item", <<>>)>> \o Element("title", <<"i">>)
                                 \o <<End("item")>>
      [] kind = "image"       -> <<Start("image", <<>>)>> \o Element("url", <<"u">>)
                                 \o <<End("image")>>
      [] OTHER                -> Element(kind, <<"x">>)

RECURSIVE children_events(_)
children_events(children) ==
    IF children = <<>> THEN <<>>
    ELSE child_events(Head(children)) \o children_events(Tail(children))

Document(children) ==
    <<Start("rss", <<>>), Start("channel", <<>>)>> \o children_events(children)
    \o <<End("channel"), End("rss")>>

InitDoc ==
    /\ DocIdle
    /\ ParserIdle /\ FeedIdle /\ StoreIdle /\ SanIdle

\* One more child is written into the channel.
AppendChild ==
    /\ parsed = NotParsed
    /\ Len(document) < MaxChildren
    /\ \E kind \in ChildKinds : document' = Append(document, kind)
    /\ UNCHANGED <<parsed, parserVars, feedVars, storeVars, sanVars>>

\* parse_rss(document, None)
ParseDocument ==
    /\ parsed = NotParsed
    /\ LET st == parse_rss(Document(document), NoConfig)
       IN  parsed' = parse_result(st.outcome, st.rss_data, st.error)
    /\ UNCHANGED <<document, parserVars, feedVars, storeVars, sanVars>>

NextDoc == AppendChild \/ ParseDocument

SpecDoc == InitDoc /\ [][NextDoc]_vars

\* Children that close an item or image scope, children that are an element
\* start other than rss, rdf:RDF, channel, item, image directly in the channel,
\* and children that hold such a start anywhere.
Closers == {"item", "titled_item", "image"}
ChannelScalars == {"title", "lastBuildDate"}
HoldsPlainStart == {"titled_item", "image", "title", "lastBuildDate"}

\* In document order, a child of `later` comes after a child of `earlier`.
Follows(earlier, later) ==
    \E i, j \in 1..Len(document) :
        i < j /\ document[i] \in earlier /\ document[j] \in later

\* C25 as stated: any element start other than rss, rdf:RDF, channel, item or
\* image that arrives after an item or image has closed inside the same
\* channel aborts the parse with UnknownElement.
C25_stated ==
    (parsed # NotParsed /\ Follows(Closers, HoldsPlainStart)) =>
        (~parsed.ok /\ parsed.error = "UnknownElement")

\* C25, amended: an element start other than rss, rdf:RDF, channel, item or
\* image that arrives directly inside the channel (no item or image open)
\* after an item or image has closed there aborts the parse with
\* UnknownElement; a document whose channel-level scalars all come before the
\* first item or image is accepted, scalars and items stored.
C25_scope_after_close ==
    parsed # NotParsed =>
        IF Follows(Closers, ChannelScalars)
        THEN ~parsed.ok /\ parsed.error = "UnknownElement"
        ELSE /\ parsed.ok
             /\ Len(parsed.feed[1].items)
                  = Cardinality({i \in 1..Len(document) :
                                    document[i] \in {"item", "titled_item"}})
             /\ (\E i \in 1..Len(document) : document[i] = "title")
                  => parsed.feed[1].title = <<"x">>

\* An item closed, then a <title> directly in the channel: UnknownElement.
C25_witness ==
    /\ document = <<"titled_item", "title">>
    /\ ~parsed.ok /\ parsed.error = "UnknownElement"

\* C26: every feed validate_rss_feed accepts is accepted by generate_rss too:
\* the basic validation that gates generation passes on it and the document
\* is written.
C26_validation_implies_generation ==
    validated.kind = "ok" =>
        /\ RssData_validate(feed).kind = "ok"
        /\ generated.kind = "ok"
        /\ generated = generate_rss(feed)
        /\ generated.xml # <<>>

\* A feed the validator accepted, with the document generated from it.
C26_witness ==
    /\ validated.kind = "ok"
    /\ generated.kind = "ok"
    /\ Len(feed.items) >= 1

-----------------------------------------------------------------------------
(* Specification SpecAccept: validate_rss_feed on feeds whose channel fields
   are complete and whose items vary *)

\* RssData::new(Some(version)) with title, link, description, generator and
\* atom link set: a feed that lacks only its items.
HeaderFeed(version) ==
    RssData_set(RssData_set(RssData_set(RssData_set(RssData_set(
        RssData_new(version),
        "title", <<"x">>), "link", HttpUrl), "description", <<"x">>),
        "generator", <<"x">>), "atom_link", HttpUrl)

\* The items added: the complete item with GUID "a" or "b", and the complete
\* item built without its GUID, without its title, without its link, and
\* with an ftp link.
ItemVariants ==
    { ValidItem,
      RssItem_set(ValidItem, "guid", <<"b">>),
      [ValidItem EXCEPT !.guid = EMPTY],
      [ValidItem EXCEPT !.title = EMPTY],
      [ValidItem EXCEPT !.link = EMPTY],
      RssItem_set(ValidItem, "link", FtpUrl) }

InitAccept ==
    /\ store \in {HeaderFeed(v) : v \in RssVersions}
    /\ removal = NoRemoval
    /\ checked = NotRun
    /\ ParserIdle /\ FeedIdle /\ SanIdle /\ DocIdle

\* feed.add_item(item), before the feed is validated
AddVariant ==
    /\ checked = NotRun
    /\ item_count(store) < MaxItems
    /\ \E item \in ItemVariants : store' = add_item(store, item)
    /\ UNCHANGED <<removal, checked, parserVars, feedVars, sanVars, docVars>>

NextAccept ==
    \/ AddVariant
    \/ ValidateStore

SpecAccept == InitAccept /\ [][NextAccept]_vars

\* The items of a feed are what the per-item rules and the structure rules
\* together ask for.
ItemsAcceptable(data) ==
    /\ Len(data.items) >= 1
    /\ \A i \in 1..Len(data.items) :
          /\ data.items[i].title # EMPTY
          /\ data.items[i].link # EMPTY
          /\ Head(data.items[i].link) \in {"http://", "https://"}
          /\ data.items[i].guid # EMPTY
    /\ \A i, j \in 1..Len(data.items) :
          i # j => data.items[i].guid # data.items[j].guid

GuidRule_1_0 == <<"All items must have a guid in RSS 1.0">>

\* C27: in every dialect a feed the full validator accepts has at least one
\* item, every item has a non-empty title, a non-empty http(s) link and a
\* non-empty GUID, and the GUIDs are pairwise distinct; whenever the per-item
\* rules report nothing, the 1.0 rule on empty GUIDs reports nothing either.
C27_accepted_items ==
    LET dialect == validate_version_specific(store) IN
    /\ checked.kind = "ok" => ItemsAcceptable(store)
    /\ (checked.kind \in {"ok", "err"} /\ validate_items(store) = <<>>) =>
          \A i \in 1..Len(dialect) : dialect[i].message # GuidRule_1_0

\* A 1.0 feed of two complete items with distinct GUIDs, accepted.
C27_witness ==
    /\ checked.kind = "ok"
    /\ store.version = "1.0"
    /\ Len(store.items) = 2
    /\ store.items[1].guid # store.items[2].guid

AtomLinkRule == <<"atom:link is required for RSS 2.0 feeds">>

\* The entries of a returned error list that carry the atom:link message.
AtomLinkEntries(errors) ==
    {i \in 1..Len(errors) : errors[i] = to_string(AtomLinkError)}

\* C28: one validation of a 2.0 feed with an empty atom_link returns the
\* message "atom:link is required for RSS 2.0 feeds" exactly twice, once from
\* the structural group and once from the dialect group; for any other
\* dialect, or with an atom_link set, the message is not returned at all.
C28_atom_link_twice ==
    LET structural == validate_structure(feed)
        dialect    == validate_version_specific(feed)
        twice      == feed.version = "2.0" /\ feed.atom_link = EMPTY
        Reports(group) ==
            Cardinality({i \in 1..Len(group) : group[i].message = AtomLinkRule})
    IN  validated.kind \in {"ok", "err"} =>
          /\ Cardinality(AtomLinkEntries(validated.errors)) = (IF twice THEN 2 ELSE 0)
          /\ Reports(structural) = (IF twice THEN 1 ELSE 0)
          /\ Reports(dialect) = (IF twice THEN 1 ELSE 0)

\* A 2.0 feed without atom link validated: the message is there twice.
C28_witness ==
    /\ feed.version = "2.0" /\ feed.atom_link = EMPTY
    /\ validated.kind = "err"
    /\ Cardinality(AtomLinkEntries(validated.errors)) = 2

-----------------------------------------------------------------------------
(* C29: the built-in dispatch comes before the custom handlers *)

\* The handlers of the list up to the first that rejects the element, all of
\* them when none does.
HandlersDue(cfg, element) ==
    LET refusing == {i \in 1..Len(cfg) : element \in cfg[i].rejects}
        stop == IF refusing = {} THEN Len(cfg)
                ELSE CHOOSE i \in refusing : \A k \in refusing : i <= k
    IN  [i \in 1..stop |-> cfg[i].id]

\* C29: on a text or CDATA event no handler is called when the built-in
\* dispatch rejects the event, and the parse fails with UnknownElement
\* whatever the handlers are; when the dispatch succeeds the handlers are
\* called in list order up to the first that returns an error, at scope None
\* with an empty element name as well.
C29_dispatch_before_handlers ==
    [][ (nevents' = nevents + 1 /\ ReadableText(last')) =>
          IF DispatchFails
          THEN outcome' = "err" /\ error' = "UnknownElement" /\ calls' = <<>>
          ELSE /\ error' # "UnknownElement"
               /\ calls' = IF config = NoConfig THEN <<>>
                            ELSE HandlersDue(config, context.current_element)
               /\ outcome' = "err" <=> HandlerFails
      ]_vars

\* Character data read at scope None, outside every element: the three
\* handlers were called in order.
C29_witness ==
    /\ last.kind \in {"Text", "CData"}
    /\ context.parsing_state = "None" /\ context.current_element = ""
    /\ outcome = "running"
    /\ calls = <<1, 2, 3>>

-----------------------------------------------------------------------------
(* C30: the <image> block of the 2.0 output *)

\* The element written at position i of the document: a start tag of the
\* name, one text that reads as the content, and the end tag.
ElementAt(xml, i, name, content) ==
    /\ i + 2 <= Len(xml)
    /\ xml[i] = Start(name, <<>>)
    /\ xml[i + 1].kind = "Text"
    /\ xml_unescape(xml[i + 1].text) = [ok |-> TRUE, text |-> content]
    /\ xml[i + 2] = End(name)

\* C30: the generated 2.0 document holds an <image> block exactly when
\* image_url is not empty; the block has the three children url, title and
\* link, in this order, whose texts are image_url, the channel's title and the
\* channel's link; nothing of image_title and image_link is written: the
\* document is the one generated with both fields empty.
C30_image_block ==
    (generated.kind = "ok" /\ feed.version = "2.0") =>
        LET xml == generated.xml
            images == ElementsNamed(xml, "image")
        IN  /\ images # {} <=> feed.image_url # EMPTY
            /\ Cardinality(images) <= 1
            /\ \A i \in images :
                  /\ ElementAt(xml, i + 1, "url", feed.image_url)
                  /\ ElementAt(xml, i + 4, "title", feed.title)
                  /\ ElementAt(xml, i + 7, "link", feed.link)
                  /\ xml[i + 10] = End("image")
            /\ xml = generate_rss([feed EXCEPT !.image_title = EMPTY,
                                               !.image_link = EMPTY]).xml

\* A 2.0 feed with image title, url and link set, generated: the block is
\* there, and no text of the document is the image's title or link.
C30_witness ==
    /\ generated.kind = "ok" /\ feed.version = "2.0"
    /\ feed.image_url # EMPTY /\ feed.image_title = <<"i">>
    /\ feed.image_link = <<"http://", "l">>
    /\ ElementsNamed(generated.xml, "image") # {}
    /\ \A k \in 1..Len(generated.xml) :
          generated.xml[k].text \notin {xml_escape(feed.image_title),
                                       xml_escape(feed.image_link)}

=============================================================================
